---- MODULE Spec2Model ----
(***************************************************************************)
(* Entity-Component Scripting Runtime of the 3D web editor:                *)
(* ComponentSystem (store, registry, script compiler, playback clock,      *)
(* update scheduler) together with the scene objects and the editor mode   *)
(* it reads.                                                               *)
(***************************************************************************)
EXTENDS Integers, Sequences, FiniteSets, TLC

\* ------------------------------------------------------------------ bounds
MaxComponents == 2      \* components stored at once, over all entities
MaxTime == 5            \* largest value of performance.now() explored (ms)
MaxCount == 3           \* largest variables.count a script is let to reach
MaxChains == 3          \* pending frame callbacks of the update loop explored
MaxListeners == 3       \* subscriptions made on the event bus, over time
MaxInvocations == 3     \* largest number of invocations of one listener
MaxGen == 2             \* scene objects an entity id is given, one after another
MaxObjects == 4         \* object ids SceneManager.addObject gives out, in all
maxHistorySize == 3     \* EditorCore.maxHistorySize (100 in the source)

\* --------------------------------------------------------------- constants
Entities == {"e1", "e2"}
\* `object_${n}`, the id of the n-th object; "e1" and "e2" are the first two
ObjectId(n) == "e" \o ToString(n)
ObjectNames == {ObjectId(n) : n \in 1..MaxObjects}
Hooks == {"start", "update", "onDestroy"}

\* Script texts.  Each stands for one JavaScript source text:
\*   ""        the empty text
\*   "full"    declares function start, update and onDestroy
\*   "upd"     declares function update only
\*   "syntax"  is not parseable (new Function throws SyntaxError)
\*   "throws"  parses, declares start/update/onDestroy, and its top-level
\*             statements throw when evaluated
\*   "badhooks" declares start, update and onDestroy, each of which throws
\*             when called
\*   "counter" is function update(){ variables.count = (variables.count||0)+1; }
ScriptTexts == {"", "full", "upd", "syntax", "throws", "badhooks", "counter",
                "subscriber"}

\* Behaviours of a component class registered through registerComponent
\* (PluginManager API): which of its methods throws.
CustomKinds == {"ok", "throwCtor", "throwUpdate", "throwDestroy"}

BuiltinTypes == {"Script", "Collider", "Light"}
TypeNames == BuiltinTypes \cup {"Custom"}
\* the component classes plugins register under the name "Custom"
PluginClasses == {"PluginA", "PluginB"}
UnknownType == "Nope"
\* the names registerBuiltInScriptTemplates gives to registerScriptTemplate
BuiltinTemplates ==
    {"Rotator", "Oscillator", "ClickHandler", "Simple Rotate", "Debug Test"}

VARIABLES
    componentTypes,        \* this.componentTypes: type name -> class
    entityComponents,      \* this.entityComponents, in Map insertion order
    updateableComponents,  \* this.updateableComponents: component references
    scriptStartTime,       \* this.scriptStartTime
    scriptPauseTime,       \* this.scriptPauseTime
    totalPausedTime,       \* this.totalPausedTime
    isUpdating,            \* this.isUpdating
    chains,                \* pending self-rescheduling frame callbacks
    lastTime,              \* lastTime of the update closure
    editorMode,            \* EditorCore.editorMode: "edit" | "play" | "pause"
    objects,               \* SceneManager.objects: ids of scene objects
    objectGen,             \* which object each id maps to (1, 2, ..: the
                           \* objects created under that id, in order)
    bus,                   \* the EventBus: events, onceEvents, and what
                           \* was subscribed and invoked so far
    now,                   \* performance.now()
    calls,                 \* calls made by the last operation, in order
    ret,                   \* what the last operation returned or threw
    playingTime,           \* real time spent in play mode since play
    lastPlayRead,          \* last getTime() reading taken in play mode
    lastPauseRead,         \* last getTime() reading taken in this pause
    commandHistory,        \* EditorCore.commandHistory: the commands, oldest first
    commandIndex,          \* EditorCore.commandIndex (0-based, -1: none)
    nextObjectId,          \* SceneManager.nextObjectId
    scriptTemplates        \* this.scriptTemplates: the template names

vars == <<componentTypes, entityComponents, updateableComponents,
          scriptStartTime, scriptPauseTime, totalPausedTime, isUpdating,
          chains, lastTime, editorMode, objects, objectGen, bus, now, calls,
          ret,
          playingTime, lastPlayRead, lastPauseRead,
          commandHistory, commandIndex, nextObjectId, scriptTemplates>>

\* ------------------------------------------------------------ JS helpers
Has(d, k) == k \in DOMAIN d
\* data.k !== undefined ? data.k : dflt
OrDefault(d, k, dflt) == IF Has(d, k) THEN d[k] ELSE dflt
\* data.k || dflt, for string fields ('' is falsy)
OrStr(d, k, dflt) == IF Has(d, k) /\ d[k] # "" THEN d[k] ELSE dflt
\* data.k || dflt, for boolean fields (false is falsy)
OrBool(d, k, dflt) == IF Has(d, k) /\ d[k] THEN d[k] ELSE dflt
\* data.k || dflt, for number fields (0 is falsy)
OrNum(d, k, dflt) == IF Has(d, k) /\ d[k] # 0 THEN d[k] ELSE dflt

Range(s) == {s[i] : i \in 1..Len(s)}
RemoveAt(s, i) == SubSeq(s, 1, i - 1) \o SubSeq(s, i + 1, Len(s))

\* ------------------------------------------------- the store as a Map of Maps
\* entityComponents is a sequence of entries [entity, components]; components
\* is a sequence of component records, each with its type name in .name.
EntIdx(ec, e) ==
    IF \E i \in 1..Len(ec) : ec[i].entity = e
    THEN CHOOSE i \in 1..Len(ec) : ec[i].entity = e
    ELSE 0
CompIdx(cs, name) ==
    IF \E i \in 1..Len(cs) : cs[i].name = name
    THEN CHOOSE i \in 1..Len(cs) : cs[i].name = name
    ELSE 0
HasMap(ec, e) == EntIdx(ec, e) # 0
ComponentsOf(ec, e) == IF HasMap(ec, e) THEN ec[EntIdx(ec, e)].components ELSE <<>>
AllComponents(ec) ==
    UNION {Range(ec[i].components) : i \in 1..Len(ec)}
StoredCount(ec) == Cardinality(AllComponents(ec))

\* null, as a component reference: no component carries id 0
NoComponent == [name |-> "null", id |-> 0]

\* getComponent(entityId, componentName)
getComponent(ec, e, name) ==
    IF ~HasMap(ec, e) THEN NoComponent
    ELSE IF CompIdx(ComponentsOf(ec, e), name) = 0 THEN NoComponent
    ELSE ComponentsOf(ec, e)[CompIdx(ComponentsOf(ec, e), name)]
\* hasComponent(entityId, componentName)
hasComponent(ec, e, name) ==
    IF HasMap(ec, e) THEN CompIdx(ComponentsOf(ec, e), name) # 0 ELSE FALSE
\* getComponents(entityId)
getComponents(ec, e) == ComponentsOf(ec, e)

\* Object identities: the smallest id no live object carries.
UsedIds(ec, upd) == {c.id : c \in AllComponents(ec)} \cup {r.id : r \in upd}
\* A reference to a component object, as a Set holds it: the object's
\* identity with the entity and class it was constructed for.
Ref(c) == [id |-> c.id, entity |-> c.entity, name |-> c.name]
FreshId(used) == CHOOSE n \in 1..(Cardinality(used) + 1) :
                    n \notin used /\ \A m \in 1..(n - 1) : m \in used

\* ---------------------------------------------------------------- clock
\* context.time.getTime(), in milliseconds (the source divides by 1000)
getTime == IF scriptStartTime # 0
           THEN now - scriptStartTime - totalPausedTime
           ELSE 0

\* ------------------------------------------------------- Script component
\* editor.sceneManager.objects.get(entityId): the object (0: undefined)
sceneObject(e) == IF e \in objects THEN objectGen[e] ELSE 0

\* Script.createScriptContext: the fields of the context that change after
\* its creation.  time.deltaTime starts at 0.016 s.
createScriptContext(entity) ==
    [deltaTime |-> 16, time |-> 0, gameObject |-> sceneObject(entity)]

\* A script instance: which hooks are functions, the text it was compiled
\* from, whether start() ran in the current play session and whether
\* onDestroy() ever ran on it.  scriptInstance = null is NoInstance.
NoInstance == [isNull |-> TRUE, src |-> "", start |-> FALSE, update |-> FALSE,
               onDestroy |-> FALSE, started |-> FALSE, destroyed |-> FALSE,
               context |-> [deltaTime |-> 16, time |-> 0, gameObject |-> 0]]

\* new Function('context', `with(context) { ${scriptCode} } ...`) throws
ParseFails(code) == code = "syntax"
\* scriptFunction.call(this.scriptInstance, context) throws
EvalThrows(code) == code = "throws"
\* the lifecycle functions the text declares
Declares(code) ==
    CASE code = "full" -> Hooks
      [] code = "upd" -> {"update"}
      [] code = "throws" -> Hooks
      [] code = "badhooks" -> Hooks
      [] code = "counter" -> {"update"}
      [] code = "subscriber" -> {"start"}
      [] OTHER -> {}
\* a hook of the instance throws when it is called
HookThrows(inst) == inst.src = "badhooks"
\* the start hook of the instance calls on('a', callback) of its context
Subscribes(inst) == inst.src = "subscriber"
\* the update hook of the instance increments variables.count
Counts(inst) == inst.src = "counter"

\* Script.compileScript.  compileError records that the catch block ran.
compileScript(c) ==
    IF ParseFails(c.scriptCode)
    THEN [c EXCEPT !.compileError = TRUE]
    ELSE IF EvalThrows(c.scriptCode)
    THEN [c EXCEPT !.scriptInstance =
                       [NoInstance EXCEPT
                          !.isNull = FALSE,
                          !.src = c.scriptCode,
                          !.context = createScriptContext(c.entity)],
                   !.compileError = TRUE]
    ELSE [c EXCEPT !.scriptInstance =
                       [NoInstance EXCEPT
                          !.isNull = FALSE,
                          !.src = c.scriptCode,
                          !.start = "start" \in Declares(c.scriptCode),
                          !.update = "update" \in Declares(c.scriptCode),
                          !.onDestroy = "onDestroy" \in Declares(c.scriptCode),
                          !.context = createScriptContext(c.entity)],
                   !.compileError = FALSE]

\* Script.constructor
Script(entity, data, cid) ==
    LET c0 == [name |-> "Script", id |-> cid, entity |-> entity,
               scriptName |-> OrStr(data, "scriptName", ""),
               scriptCode |-> OrStr(data, "scriptCode", ""),
               scriptInstance |-> NoInstance,
               enabled |-> OrDefault(data, "enabled", TRUE),
               count |-> 0,
               compileError |-> FALSE]
    IN IF c0.scriptCode # "" \/ c0.scriptName # ""
       THEN compileScript(c0)
       ELSE c0

\* Collider.constructor
Collider(entity, data, cid) ==
    [name |-> "Collider", id |-> cid, entity |-> entity,
     type |-> OrStr(data, "type", "box"),
     isTrigger |-> OrBool(data, "isTrigger", FALSE),
     enabled |-> OrDefault(data, "enabled", TRUE)]

\* Light.constructor
Light(entity, data, cid) ==
    [name |-> "Light", id |-> cid, entity |-> entity,
     lightType |-> OrStr(data, "lightType", OrStr(data, "type", "point")),
     intensity |-> OrNum(data, "intensity", 1),
     distance |-> OrNum(data, "distance", 0),
     castShadow |-> OrDefault(data, "castShadow", TRUE)]

\* A component class registered by a plugin; data.kind selects its behaviour.
Custom(cls, entity, data, cid) ==
    [name |-> "Custom", id |-> cid, entity |-> entity, class |-> cls,
     kind |-> OrStr(data, "kind", "ok")]

\* as CtorThrows, for a Script constructor that lets a compile error escape
CtorThrows_CompileErrorEscapes(name, data) ==
    \/ name = "Custom" /\ OrStr(data, "kind", "ok") = "throwCtor"
    \/ name = "Script" /\ (ParseFails(OrStr(data, "scriptCode", ""))
                            \/ EvalThrows(OrStr(data, "scriptCode", "")))

\* new ComponentClass(entityId, data) throws: Script.constructor catches the
\* errors of compileScript, Collider and Light build render objects; a plugin
\* class can throw
CtorThrows(name, data) == name = "Custom" /\ OrStr(data, "kind", "ok") = "throwCtor"

\* new ComponentClass(entityId, data)
Construct(cls, entity, data, cid) ==
    CASE cls = "Script" -> Script(entity, data, cid)
      [] cls = "Collider" -> Collider(entity, data, cid)
      [] cls = "Light" -> Light(entity, data, cid)
      [] OTHER -> Custom(cls, entity, data, cid)

\* ------------------------------------------------------------- call log
\* One call made during an operation: the function, the id of the component
\* it is made on or about (0: none), and the deltaTime passed.
Call(fn, id, dt) == [fn |-> fn, id |-> id, dt |-> dt]
\* eventBus.emit(event, {entityId, componentName, component}), made while the
\* store is ec: the payload, and whether the store holds that component
\* under (entityId, componentName) at that moment
Emit(event, e, name, component, ec) ==
    [fn |-> event, id |-> component.id, dt |-> 0,
     entityId |-> e, componentName |-> name,
     present |-> getComponent(ec, e, name).id = component.id]

\* The part of the ComponentSystem one synchronous call chain works on:
\*   ec, upd, types  the store, the updateable set, the registry
\*   calls           the calls made so far
\*   threw           an exception is propagating
\*   result          id of the returned component (0: none), 1/0 for true/false
Sys(ec, upd, types) ==
    [ec |-> ec, upd |-> upd, types |-> types, calls |-> <<>>,
     threw |-> FALSE, result |-> 0]

\* scriptInstance.hook(), with the context the hook finds
Hook(fn, c, dt) ==
    [fn |-> fn, id |-> c.id, dt |-> dt, context |-> c.scriptInstance.context]

\* try { scriptInstance.hook() } catch (error) { console.error(...) }
HookCalls(fn, c, dt) ==
    <<Hook(fn, c, dt)>>
    \o (IF HookThrows(c.scriptInstance)
        THEN <<Call("console.error", c.id, 0)>>
        ELSE <<>>)

\* --------------------------------------------------------- addComponent
\* as addComponent, creating the entity's component map before the type
\* name is looked up
addComponent_MapBeforeLookup(S, e, name, data) ==
    LET ec1 == IF HasMap(S.ec, e) THEN S.ec
               ELSE Append(S.ec, [entity |-> e, components |-> <<>>])
        i == EntIdx(ec1, e)
    IN IF name \notin DOMAIN S.types
       THEN [S EXCEPT !.ec = ec1, !.threw = TRUE, !.result = 0,
                      !.calls = Append(@, Call("throw", 0, 0))]
       ELSE IF hasComponent(ec1, e, name)
       THEN [S EXCEPT !.ec = ec1, !.result = getComponent(ec1, e, name).id,
                      !.calls = Append(@, Call("console.warn",
                                               getComponent(ec1, e, name).id, 0))]
       ELSE
         LET cid == FreshId(UsedIds(ec1, S.upd))
             component == Construct(S.types[name], e, data, cid)
         IN IF CtorThrows(name, data)
            THEN [S EXCEPT !.ec = ec1, !.threw = TRUE, !.result = 0,
                           !.calls = @ \o <<Call("new", 0, 0),
                                            Call("throw", 0, 0)>>]
            ELSE [S EXCEPT
                    !.ec = [ec1 EXCEPT ![i].components = Append(@, component)],
                    !.upd = @ \cup {Ref(component)},
                    !.result = cid,
                    !.calls = @ \o <<Call("new", cid, 0),
                                     Emit("emit:component:added", e, name, component,
                                          [ec1 EXCEPT ![i].components =
                                                          Append(@, component)])>>]

\* as addComponent, constructing again over a component already present
addComponent_ConstructsAgain(S, e, name, data) ==
    IF name \notin DOMAIN S.types
    THEN [S EXCEPT !.threw = TRUE, !.result = 0,
                   !.calls = Append(@, Call("throw", 0, 0))]
    ELSE
      LET ec1 == IF HasMap(S.ec, e) THEN S.ec
                 ELSE Append(S.ec, [entity |-> e, components |-> <<>>])
          i == EntIdx(ec1, e)
          j == CompIdx(ec1[i].components, name)
          cid == FreshId(UsedIds(ec1, S.upd))
          component == Construct(S.types[name], e, data, cid)
      IN IF CtorThrows(name, data)
         THEN [S EXCEPT !.ec = ec1, !.threw = TRUE, !.result = 0,
                        !.calls = @ \o <<Call("new", 0, 0),
                                         Call("throw", 0, 0)>>]
         ELSE [S EXCEPT
                 !.ec = IF j = 0
                        THEN [ec1 EXCEPT ![i].components = Append(@, component)]
                        ELSE [ec1 EXCEPT ![i].components[j] = component],
                 !.upd = (IF j = 0 THEN @ ELSE @ \ {Ref(ec1[i].components[j])})
                         \cup {Ref(component)},
                 !.result = cid,
                 !.calls = @ \o <<Call("new", cid, 0),
                                  Emit("emit:component:added", e, name, component,
                                       IF j = 0
                                       THEN [ec1 EXCEPT ![i].components =
                                                           Append(@, component)]
                                       ELSE [ec1 EXCEPT ![i].components[j] =
                                                           component])>>]

\* addComponent(entityId, componentName, data)
addComponent(S, e, name, data) ==
    IF name \notin DOMAIN S.types
    THEN [S EXCEPT !.threw = TRUE, !.result = 0,
                   !.calls = Append(@, Call("throw", 0, 0))]
    ELSE
      LET ec1 == IF HasMap(S.ec, e) THEN S.ec
                 ELSE Append(S.ec, [entity |-> e, components |-> <<>>])
          i == EntIdx(ec1, e)
      IN IF hasComponent(ec1, e, name)
         THEN [S EXCEPT !.ec = ec1, !.result = getComponent(ec1, e, name).id,
                        !.calls = Append(@, Call("console.warn",
                                                 getComponent(ec1, e, name).id, 0))]
         ELSE
           LET cid == FreshId(UsedIds(ec1, S.upd))
               component == Construct(S.types[name], e, data, cid)
           IN IF CtorThrows(name, data)
              THEN [S EXCEPT !.ec = ec1, !.threw = TRUE, !.result = 0,
                             !.calls = @ \o <<Call("new", 0, 0),
                                              Call("throw", 0, 0)>>]
              ELSE [S EXCEPT
                      !.ec = [ec1 EXCEPT ![i].components = Append(@, component)],
                      !.upd = @ \cup {Ref(component)},
                      !.result = cid,
                      !.calls = @ \o <<Call("new", cid, 0),
                                       Emit("emit:component:added", e, name,
                                            component,
                                            [ec1 EXCEPT ![i].components =
                                                            Append(@, component)])>>]

\* -------------------------------------------------------------- destroy
\* Script.destroy: the calls it makes (the component itself leaves the store)
ScriptDestroyCalls(c) ==
    IF ~c.scriptInstance.isNull /\ c.scriptInstance.onDestroy
    THEN HookCalls("onDestroy", c, 0)
    ELSE <<>>
\* component.destroy() throws: only a plugin class can (Script.destroy
\* catches, Collider and Light only release render objects)
DestroyThrows(c) == c.name = "Custom" /\ c.kind = "throwDestroy"

\* ------------------------------------------------------ removeComponent
\* as removeComponent, emitting component:removed before the component is
\* deleted from the entity's map
removeComponent_EmitsBeforeDelete(S, e, name) ==
    IF ~hasComponent(S.ec, e, name)
    THEN [S EXCEPT !.result = 0,
                   !.calls = Append(@, Call("console.warn", 0, 0))]
    ELSE
      LET i == EntIdx(S.ec, e)
          j == CompIdx(S.ec[i].components, name)
          component == S.ec[i].components[j]
          destroyCalls ==
              <<Call("comp.destroy", component.id, 0)>>
              \o (IF name = "Script" THEN ScriptDestroyCalls(component) ELSE <<>>)
          rest == RemoveAt(S.ec[i].components, j)
      IN IF DestroyThrows(component)
         THEN [S EXCEPT !.threw = TRUE, !.result = 0,
                        !.calls = @ \o destroyCalls
                            \o <<Call("throw", component.id, 0)>>]
         ELSE [S EXCEPT
                 !.upd = @ \ {Ref(component)},
                 !.ec = IF Len(rest) = 0 THEN RemoveAt(S.ec, i)
                        ELSE [S.ec EXCEPT ![i].components = rest],
                 !.result = 1,
                 !.calls = @ \o destroyCalls
                     \o <<Emit("emit:component:removed", e, name, component,
                               S.ec)>>]

\* as removeComponent, raising an error when the component is absent
removeComponent_ThrowsOnMiss(S, e, name) ==
    IF ~hasComponent(S.ec, e, name)
    THEN [S EXCEPT !.threw = TRUE, !.result = 0,
                   !.calls = Append(@, Call("throw", 0, 0))]
    ELSE
      LET i == EntIdx(S.ec, e)
          j == CompIdx(S.ec[i].components, name)
          component == S.ec[i].components[j]
          destroyCalls ==
              <<Call("comp.destroy", component.id, 0)>>
              \o (IF name = "Script" THEN ScriptDestroyCalls(component) ELSE <<>>)
          rest == RemoveAt(S.ec[i].components, j)
      IN IF DestroyThrows(component)
         THEN [S EXCEPT !.threw = TRUE, !.result = 0,
                        !.calls = @ \o destroyCalls
                            \o <<Call("throw", component.id, 0)>>]
         ELSE [S EXCEPT
                 !.upd = @ \ {Ref(component)},
                 !.ec = IF Len(rest) = 0 THEN RemoveAt(S.ec, i)
                        ELSE [S.ec EXCEPT ![i].components = rest],
                 !.result = 1,
                 !.calls = @ \o destroyCalls
                     \o <<Emit("emit:component:removed", e, name, component,
                               IF Len(rest) = 0 THEN RemoveAt(S.ec, i)
                               ELSE [S.ec EXCEPT ![i].components = rest])>>]

\* as removeComponent, leaving the component in updateableComponents
removeComponent_KeepsUpdateable(S, e, name) ==
    IF ~hasComponent(S.ec, e, name)
    THEN [S EXCEPT !.result = 0,
                   !.calls = Append(@, Call("console.warn", 0, 0))]
    ELSE
      LET i == EntIdx(S.ec, e)
          j == CompIdx(S.ec[i].components, name)
          component == S.ec[i].components[j]
          destroyCalls ==
              <<Call("comp.destroy", component.id, 0)>>
              \o (IF name = "Script" THEN ScriptDestroyCalls(component) ELSE <<>>)
          rest == RemoveAt(S.ec[i].components, j)
      IN IF DestroyThrows(component)
         THEN [S EXCEPT !.threw = TRUE, !.result = 0,
                        !.calls = @ \o destroyCalls
                            \o <<Call("throw", component.id, 0)>>]
         ELSE [S EXCEPT
                 !.ec = IF Len(rest) = 0 THEN RemoveAt(S.ec, i)
                        ELSE [S.ec EXCEPT ![i].components = rest],
                 !.result = 1,
                 !.calls = @ \o destroyCalls
                     \o <<Emit("emit:component:removed", e, name, component,
                               IF Len(rest) = 0 THEN RemoveAt(S.ec, i)
                               ELSE [S.ec EXCEPT ![i].components = rest])>>]

\* as removeComponent, going on with the removal when destroy() throws
removeComponent_CatchesDestroy(S, e, name) ==
    IF ~hasComponent(S.ec, e, name)
    THEN [S EXCEPT !.result = 0,
                   !.calls = Append(@, Call("console.warn", 0, 0))]
    ELSE
      LET i == EntIdx(S.ec, e)
          j == CompIdx(S.ec[i].components, name)
          component == S.ec[i].components[j]
          destroyCalls ==
              <<Call("comp.destroy", component.id, 0)>>
              \o (IF name = "Script" THEN ScriptDestroyCalls(component) ELSE <<>>)
          rest == RemoveAt(S.ec[i].components, j)
      IN [S EXCEPT
            !.upd = @ \ {Ref(component)},
            !.ec = IF Len(rest) = 0 THEN RemoveAt(S.ec, i)
                   ELSE [S.ec EXCEPT ![i].components = rest],
            !.result = 1,
            !.calls = @ \o destroyCalls
                \o <<Emit("emit:component:removed", e, name, component,
                          IF Len(rest) = 0 THEN RemoveAt(S.ec, i)
                          ELSE [S.ec EXCEPT ![i].components = rest])>>]

\* removeComponent(entityId, componentName)
removeComponent(S, e, name) ==
    IF ~hasComponent(S.ec, e, name)
    THEN [S EXCEPT !.result = 0,
                   !.calls = Append(@, Call("console.warn", 0, 0))]
    ELSE
      LET i == EntIdx(S.ec, e)
          j == CompIdx(S.ec[i].components, name)
          component == S.ec[i].components[j]
          destroyCalls ==
              <<Call("comp.destroy", component.id, 0)>>
              \o (IF name = "Script" THEN ScriptDestroyCalls(component) ELSE <<>>)
          rest == RemoveAt(S.ec[i].components, j)
      IN IF DestroyThrows(component)
         THEN [S EXCEPT !.threw = TRUE, !.result = 0,
                        !.calls = @ \o destroyCalls
                            \o <<Call("throw", component.id, 0)>>]
         ELSE [S EXCEPT
                 !.upd = @ \ {Ref(component)},
                 !.ec = IF Len(rest) = 0 THEN RemoveAt(S.ec, i)
                        ELSE [S.ec EXCEPT ![i].components = rest],
                 !.result = 1,
                 !.calls = @ \o destroyCalls
                     \o <<Emit("emit:component:removed", e, name, component,
                               IF Len(rest) = 0 THEN RemoveAt(S.ec, i)
                               ELSE [S.ec EXCEPT ![i].components = rest])>>]

\* ------------------------------------------------------ read accessors
\* as readStore, making sure first that the entity has a component map
readStore_EnsuresMap(S, op, e, name) ==
    LET ec1 == IF HasMap(S.ec, e) THEN S.ec
               ELSE Append(S.ec, [entity |-> e, components |-> <<>>])
    IN [S EXCEPT
          !.ec = ec1,
          !.result = CASE op = "getComponent" -> getComponent(ec1, e, name).id
                       [] op = "getComponents" -> Len(getComponents(ec1, e))
                       [] OTHER -> IF hasComponent(ec1, e, name) THEN 1 ELSE 0]

\* a call of getComponent(entityId, componentName), getComponents(entityId)
\* or hasComponent(entityId, componentName); the result is the id of the
\* component returned (0: null), the length of the array returned, or 1/0
readStore(S, op, e, name) ==
    [S EXCEPT
       !.result = CASE op = "getComponent" -> getComponent(S.ec, e, name).id
                    [] op = "getComponents" -> Len(getComponents(S.ec, e))
                    [] OTHER -> IF hasComponent(S.ec, e, name) THEN 1 ELSE 0]

\* -------------------------------------------------- removeAllComponents
RECURSIVE removeEach(_, _, _)
removeEach(S, e, names) ==
    IF Len(names) = 0 \/ S.threw THEN S
    ELSE removeEach(removeComponent(S, e, Head(names)), e, Tail(names))

removeAllComponents(S, e) ==
    IF ~HasMap(S.ec, e) THEN S
    ELSE LET cs == ComponentsOf(S.ec, e)
             componentNames == [k \in 1..Len(cs) |-> cs[k].name]
         IN [removeEach(S, e, componentNames) EXCEPT !.result = 0]

\* dispose(): this.entityComponents.forEach((components, entityId) =>
\* this.removeAllComponents(entityId)), over the entity ids given
RECURSIVE disposeEach(_, _)
disposeEach(S, ids) ==
    IF Len(ids) = 0 \/ S.threw THEN S
    ELSE disposeEach(removeAllComponents(S, Head(ids)), Tail(ids))

\* --------------------------------------------------------------- update
\* as ScriptUpdate, without the refresh of context.gameObject
ScriptUpdate_KeepsGameObject(c, deltaTime, mode, objs) ==
    IF ~c.enabled \/ c.scriptInstance.isNull THEN c
    ELSE IF mode # "play" THEN c
    ELSE [c EXCEPT !.scriptInstance.context.deltaTime = deltaTime,
                   !.scriptInstance.context.time = getTime]

\* as ScriptUpdate, looking for the scene object before it writes the time
ScriptUpdate_ChecksObjectFirst(c, deltaTime, mode, objs) ==
    IF ~c.enabled \/ c.scriptInstance.isNull THEN c
    ELSE IF mode # "play" THEN c
    ELSE IF c.entity \notin objs THEN c
    ELSE [c EXCEPT !.scriptInstance.context.deltaTime = deltaTime,
                   !.scriptInstance.context.time = getTime,
                   !.scriptInstance.context.gameObject = objectGen[c.entity]]

\* Script.update(deltaTime), what it writes to the context before the hook:
\* time.deltaTime, time.time, and gameObject when the scene has the object
ScriptUpdate(c, deltaTime, mode, objs) ==
    IF ~c.enabled \/ c.scriptInstance.isNull THEN c
    ELSE IF mode # "play" THEN c
    ELSE LET timed == [c EXCEPT
                         !.scriptInstance.context.deltaTime = deltaTime,
                         !.scriptInstance.context.time = getTime]
         IN IF c.entity \in objs
            THEN [timed EXCEPT
                    !.scriptInstance.context.gameObject = objectGen[c.entity]]
            ELSE timed

\* as ScriptUpdateCalls, without the test of the enabled flag
ScriptUpdateCalls_IgnoresEnabled(c, deltaTime, mode, objs) ==
    IF c.scriptInstance.isNull THEN <<>>
    ELSE IF mode # "play" THEN <<>>
    ELSE IF c.entity \notin objs THEN <<>>
    ELSE IF c.scriptInstance.update
    THEN HookCalls("update", ScriptUpdate(c, deltaTime, mode, objs), deltaTime)
    ELSE <<>>

\* Script.update(deltaTime): the user hook is reached only when the component
\* is enabled, compiled, the editor is in play mode and the scene has the
\* entity's object.
ScriptUpdateCalls(c, deltaTime, mode, objs) ==
    IF ~c.enabled \/ c.scriptInstance.isNull THEN <<>>
    ELSE IF mode # "play" THEN <<>>
    ELSE IF c.entity \notin objs THEN <<>>
    ELSE IF c.scriptInstance.update
    THEN HookCalls("update", ScriptUpdate(c, deltaTime, mode, objs), deltaTime)
    ELSE <<>>
\* as UpdateThrows, for a Script.update that reads scriptInstance.context
\* without testing scriptInstance for null
UpdateThrows_NullInstanceCrashes(c) ==
    \/ c.name = "Custom" /\ c.kind = "throwUpdate"
    \/ c.name = "Script" /\ c.scriptInstance.isNull

\* component.update(deltaTime) throws: Script.update catches the hook's
\* errors, Collider and Light copy fields; a plugin class can throw
UpdateThrows(c) == c.name = "Custom" /\ c.kind = "throwUpdate"

\* the (entry, component) positions in forEach order
RECURSIVE Positions(_, _)
Positions(ec, i) ==
    IF i > Len(ec) THEN <<>>
    ELSE [j \in 1..Len(ec[i].components) |-> <<i, j>>] \o Positions(ec, i + 1)

\* as updateOne, delivering update to Script components in every mode
updateOne_ScriptsInEveryMode(S, pos, deltaTime, mode, objs) ==
    LET component == S.ec[pos[1]].components[pos[2]]
        counted == /\ component.name = "Script"
                   /\ ScriptUpdateCalls(component, deltaTime, "play", objs) # <<>>
                   /\ Counts(component.scriptInstance)
    IN [S EXCEPT
          !.ec = IF component.name = "Script"
                 THEN [@ EXCEPT ![pos[1]].components[pos[2]] =
                         [ScriptUpdate(component, deltaTime, "play", objs)
                            EXCEPT !.count = IF counted THEN @ + 1 ELSE @]]
                 ELSE @,
          !.calls = @ \o <<Call("comp.update", component.id, deltaTime)>>
              \o (IF component.name = "Script"
                  THEN ScriptUpdateCalls(component, deltaTime, "play", objs)
                  ELSE <<>>)
              \o (IF UpdateThrows(component)
                  THEN <<Call("throw", component.id, 0)>>
                  ELSE <<>>),
          !.threw = UpdateThrows(component)]

\* one component of the forEach in updateComponents
updateOne(S, pos, deltaTime, mode, objs) ==
    LET component == S.ec[pos[1]].components[pos[2]]
        \* the hook ran and wrote variables.count
        counted == /\ component.name = "Script"
                   /\ ScriptUpdateCalls(component, deltaTime, mode, objs) # <<>>
                   /\ Counts(component.scriptInstance)
    IN IF mode # "play" /\ component.name = "Script" THEN S
       ELSE [S EXCEPT
               !.ec = IF component.name = "Script"
                      THEN [@ EXCEPT ![pos[1]].components[pos[2]] =
                              [ScriptUpdate(component, deltaTime, mode, objs)
                                 EXCEPT !.count = IF counted THEN @ + 1 ELSE @]]
                      ELSE @,
               !.calls = @ \o <<Call("comp.update", component.id, deltaTime)>>
                   \o (IF component.name = "Script"
                       THEN ScriptUpdateCalls(component, deltaTime, mode, objs)
                       ELSE <<>>)
                   \o (IF UpdateThrows(component)
                       THEN <<Call("throw",
                                   component.id, 0)>>
                       ELSE <<>>),
               !.threw = UpdateThrows(component)]

RECURSIVE updateFrom(_, _, _, _, _, _)
updateFrom(S, ps, k, deltaTime, mode, objs) ==
    IF k > Len(ps) \/ S.threw THEN S
    ELSE updateFrom(updateOne(S, ps[k], deltaTime, mode, objs),
                    ps, k + 1, deltaTime, mode, objs)

\* updateComponents(deltaTime)
updateComponents(S, deltaTime, mode, objs) ==
    updateFrom(S, Positions(S.ec, 1), 1, deltaTime, mode, objs)

\* ------------------------------------------------- start / stop of scripts
\* the Script component of entry i, or NoComponent
ScriptAt(ec, i) ==
    IF CompIdx(ec[i].components, "Script") = 0 THEN NoComponent
    ELSE ec[i].components[CompIdx(ec[i].components, "Script")]

\* context.time.time = 0; context.time.deltaTime = 0
resetTime(c) ==
    [c EXCEPT !.scriptInstance.context.time = 0,
              !.scriptInstance.context.deltaTime = 0]

\* as startScripts, with no try/catch around start(): the first start() that
\* throws ends the forEach
startScripts_StopsAtThrow(S) ==
    LET HasScript(i) == ScriptAt(S.ec, i).id # 0
                        /\ ~ScriptAt(S.ec, i).scriptInstance.isNull
        Eligible(i) == HasScript(i) /\ ScriptAt(S.ec, i).scriptInstance.start
        Thrown(log) == log # <<>> /\ log[Len(log)].fn = "throw"
        Log[i \in 0..Len(S.ec)] ==
            IF i = 0 THEN <<>>
            ELSE IF Eligible(i) /\ ~Thrown(Log[i - 1])
            THEN Log[i - 1] \o <<Hook("start", resetTime(ScriptAt(S.ec, i)), 0)>>
                 \o (IF HookThrows(ScriptAt(S.ec, i).scriptInstance)
                     THEN <<Call("throw", ScriptAt(S.ec, i).id, 0)>>
                     ELSE <<>>)
            ELSE Log[i - 1]
    IN [S EXCEPT
          !.calls = @ \o Log[Len(S.ec)],
          !.threw = Thrown(Log[Len(S.ec)]),
          !.ec = [i \in 1..Len(S.ec) |->
                    IF HasScript(i) /\ ~Thrown(Log[i - 1])
                    THEN [S.ec[i] EXCEPT
                            !.components[CompIdx(S.ec[i].components, "Script")] =
                                [resetTime(@) EXCEPT
                                   !.scriptInstance.started = @ \/ Eligible(i)]]
                    ELSE S.ec[i]]]

\* the forEach of startScriptExecution: on every compiled script the time
\* of the context is reset and start() is called
startScripts(S) ==
    LET HasScript(i) == ScriptAt(S.ec, i).id # 0
                        /\ ~ScriptAt(S.ec, i).scriptInstance.isNull
        Eligible(i) == HasScript(i) /\ ScriptAt(S.ec, i).scriptInstance.start
        idx == {i \in 1..Len(S.ec) : Eligible(i)}
        Log[i \in 0..Len(S.ec)] ==
            IF i = 0 THEN <<>>
            ELSE IF i \in idx
            THEN Log[i - 1] \o HookCalls("start", resetTime(ScriptAt(S.ec, i)), 0)
            ELSE Log[i - 1]
    IN [S EXCEPT
          !.calls = @ \o Log[Len(S.ec)],
          !.ec = [i \in 1..Len(S.ec) |->
                    IF HasScript(i)
                    THEN [S.ec[i] EXCEPT
                            !.components[CompIdx(S.ec[i].components, "Script")] =
                                [resetTime(@) EXCEPT
                                   !.scriptInstance.started = @ \/ i \in idx]]
                    ELSE S.ec[i]]]

\* the forEach of resetScriptExecution: the time of every script context is
\* reset
resetContexts(S) ==
    [S EXCEPT
       !.ec = [i \in 1..Len(S.ec) |->
                 IF ScriptAt(S.ec, i).id # 0
                    /\ ~ScriptAt(S.ec, i).scriptInstance.isNull
                 THEN [S.ec[i] EXCEPT
                         !.components[CompIdx(S.ec[i].components, "Script")] =
                             resetTime(@)]
                 ELSE S.ec[i]]]

\* as stopScripts, passing over the scripts whose enabled flag is false
stopScripts_SkipsDisabled(S) ==
    LET HasScript(i) == ScriptAt(S.ec, i).id # 0
                        /\ ~ScriptAt(S.ec, i).scriptInstance.isNull
        Eligible(i) == HasScript(i) /\ ScriptAt(S.ec, i).scriptInstance.onDestroy
                       /\ ScriptAt(S.ec, i).enabled
        Log[i \in 0..Len(S.ec)] ==
            IF i = 0 THEN <<>>
            ELSE IF Eligible(i)
            THEN Log[i - 1] \o HookCalls("onDestroy", ScriptAt(S.ec, i), 0)
            ELSE Log[i - 1]
    IN [S EXCEPT
          !.calls = @ \o Log[Len(S.ec)],
          !.ec = [i \in 1..Len(S.ec) |->
                    IF HasScript(i)
                    THEN [S.ec[i] EXCEPT
                            !.components[CompIdx(S.ec[i].components, "Script")]
                                .scriptInstance =
                                [@ EXCEPT !.started = FALSE,
                                          !.destroyed = @ \/ Eligible(i)]]
                    ELSE S.ec[i]]]

\* the forEach of stopScriptExecution: onDestroy() on every compiled script.
\* The play session ends here: started is cleared on every instance.
stopScripts(S) ==
    LET HasScript(i) == ScriptAt(S.ec, i).id # 0
                        /\ ~ScriptAt(S.ec, i).scriptInstance.isNull
        Eligible(i) == HasScript(i) /\ ScriptAt(S.ec, i).scriptInstance.onDestroy
        Log[i \in 0..Len(S.ec)] ==
            IF i = 0 THEN <<>>
            ELSE IF Eligible(i)
            THEN Log[i - 1] \o HookCalls("onDestroy", ScriptAt(S.ec, i), 0)
            ELSE Log[i - 1]
    IN [S EXCEPT
          !.calls = @ \o Log[Len(S.ec)],
          !.ec = [i \in 1..Len(S.ec) |->
                    IF HasScript(i)
                    THEN [S.ec[i] EXCEPT
                            !.components[CompIdx(S.ec[i].components, "Script")]
                                .scriptInstance =
                                [@ EXCEPT !.started = FALSE,
                                          !.destroyed = @ \/ Eligible(i)]]
                    ELSE S.ec[i]]]

\* ------------------------------------------------------------ the inputs
EmptyData == [k \in {} |-> TRUE]
ScriptData ==
    {EmptyData, [scriptCode |-> "full"],
     [scriptCode |-> "syntax"], [scriptCode |-> "throws"]}
ColliderData == {EmptyData, [type |-> "sphere", isTrigger |-> TRUE]}
LightData == {EmptyData}
CustomData == {[kind |-> k] : k \in CustomKinds}
DataFor(name) ==
    CASE name = "Script" -> ScriptData
      [] name = "Collider" -> ColliderData
      [] name = "Light" -> LightData
      [] name = "Custom" -> CustomData
      [] OTHER -> {EmptyData}

\* result: id of the returned component (0: null), 1/0 for true/false, or
\* the number returned
Ret(result, threw) == [result |-> result, threw |-> threw]

\* ------------------------------------------------------------- EventBus
\* Event types, and what a subscribed callback does when it is invoked:
\* return, throw, or emit the event again the first time it is invoked.
EventTypes == {"a", "b"}
ListenerKinds == {"plain", "throws", "reemit"}
\* callbacks that change the subscriptions of the emitted type when invoked:
\*   "subscribes"        on(t, a new plain callback)
\*   "subscribesOnce"    once(t, a new plain callback)
\*   "unsubscribes"      off(t, the last persistent callback of t, if another)
\*   "unsubscribesOnce"  offOnce(t, the first one-shot callback of t)
ResubscribingKinds ==
    {"subscribes", "subscribesOnce", "unsubscribes", "unsubscribesOnce"}

\* new EventBus().  events and onceEvents give each type its array of
\* listeners (empty: no key); a listener is the number of its callback and
\* what the callback does.  made lists every subscription so far,
\* made[id] being that of callback id; count[id] is how often callback id
\* was invoked.
EmptyBus ==
    [events |-> [t \in EventTypes |-> <<>>],
     onceEvents |-> [t \in EventTypes |-> <<>>],
     made |-> <<>>,
     count |-> [id \in 1..MaxListeners |-> 0]]

\* The bus during one synchronous emit, with the calls made so far
Dispatch(b) == [bus |-> b, calls |-> <<>>, threw |-> FALSE]

\* on(eventType, callback) and once(eventType, callback): push a listener
subscribe(b, mode, t, kind) ==
    LET listener == [id |-> Len(b.made) + 1, kind |-> kind]
        b1 == [b EXCEPT !.made = Append(@, [type |-> t, mode |-> mode,
                                            kind |-> kind])]
    IN IF mode = "on"
       THEN [b1 EXCEPT !.events[t] = Append(@, listener)]
       ELSE [b1 EXCEPT !.onceEvents[t] = Append(@, listener)]

\* findIndex(listener => listener.callback === callback), 0 for -1
FindIndex(listeners, id) ==
    IF \E i \in 1..Len(listeners) : listeners[i].id = id
    THEN CHOOSE i \in 1..Len(listeners) :
            /\ listeners[i].id = id
            /\ \A k \in 1..(i - 1) : listeners[k].id # id
    ELSE 0

\* off(eventType, callback) and offOnce(eventType, callback)
unsubscribe(b, mode, t, id) ==
    LET listeners == IF mode = "on" THEN b.events[t] ELSE b.onceEvents[t]
        index == FindIndex(listeners, id)
        rest == IF index # 0 THEN RemoveAt(listeners, index) ELSE listeners
    IN IF mode = "on"
       THEN [b EXCEPT !.events[t] = rest]
       ELSE [b EXCEPT !.onceEvents[t] = rest]

\* what the callback of the listener does to the subscriptions of type t
callback(b, listener, t) ==
    CASE listener.kind = "subscribes" -> subscribe(b, "on", t, "plain")
      [] listener.kind = "subscribesOnce" -> subscribe(b, "once", t, "plain")
      [] listener.kind = "unsubscribes" ->
           IF /\ Len(b.events[t]) > 0
              /\ b.events[t][Len(b.events[t])].id # listener.id
           THEN unsubscribe(b, "on", t, b.events[t][Len(b.events[t])].id)
           ELSE b
      [] listener.kind = "unsubscribesOnce" ->
           IF Len(b.onceEvents[t]) > 0
           THEN unsubscribe(b, "once", t, b.onceEvents[t][1].id)
           ELSE b
      [] OTHER -> b

RECURSIVE emit(_, _, _)
RECURSIVE invoke(_, _, _, _)
RECURSIVE invokeAll(_, _, _, _, _)

\* as invoke, with no try/catch around the callback
invoke_NoCatch(D, listener, t, depth) ==
    LET first == D.bus.count[listener.id] = 0
        D1 == [D EXCEPT !.bus.count[listener.id] = @ + 1,
                        !.calls = Append(@, Call("listener", listener.id, depth))]
    IN CASE listener.kind = "reemit" /\ first -> emit(D1, t, depth + 1)
         [] listener.kind = "throws" -> [D1 EXCEPT !.threw = TRUE]
         [] OTHER -> [D1 EXCEPT !.bus = callback(@, listener, t)]

\* try { listener.callback(data) } catch (error) { console.error(...) },
\* inside the emit at nesting depth `depth`
invoke(D, listener, t, depth) ==
    LET first == D.bus.count[listener.id] = 0
        D1 == [D EXCEPT !.bus.count[listener.id] = @ + 1,
                        !.calls = Append(@, Call("listener", listener.id, depth))]
    IN CASE listener.kind = "reemit" /\ first -> emit(D1, t, depth + 1)
         [] listener.kind = "throws" ->
              [D1 EXCEPT !.calls = Append(@, Call("console.error",
                                                  listener.id, depth))]
         [] OTHER -> [D1 EXCEPT !.bus = callback(@, listener, t)]

\* as invokeAll, going through the persistent listeners as they are
\* subscribed at each step instead of through the copy
RECURSIVE invokeAll_Live(_, _, _, _, _)
invokeAll_Live(D, listeners, k, t, depth) ==
    LET live == IF /\ Len(listeners) > 0
                   /\ D.bus.made[listeners[1].id].mode = "on"
                THEN D.bus.events[t]
                ELSE listeners
    IN IF k > Len(live) \/ D.threw THEN D
       ELSE invokeAll_Live(invoke(D, live[k], t, depth),
                           listeners, k + 1, t, depth)

\* listeners.forEach(listener => ...), from position k on
invokeAll(D, listeners, k, t, depth) ==
    IF k > Len(listeners) \/ D.threw THEN D
    ELSE invokeAll(invoke(D, listeners[k], t, depth), listeners, k + 1, t, depth)

\* as emitOnce, deleting the one-shot listeners after they were invoked
emitOnce_DeletesAfter(D, t, depth) ==
    IF Len(D.bus.onceEvents[t]) > 0
    THEN LET listeners == D.bus.onceEvents[t]
             D1 == invokeAll(D, listeners, 1, t, depth)
         IN [D1 EXCEPT !.bus.onceEvents[t] = <<>>]
    ELSE D

\* emit, second half: the one-shot listeners are copied, deleted from
\* onceEvents, and then invoked
emitOnce(D, t, depth) ==
    IF Len(D.bus.onceEvents[t]) > 0
    THEN LET listeners == D.bus.onceEvents[t]
         IN invokeAll([D EXCEPT !.bus.onceEvents[t] = <<>>],
                      listeners, 1, t, depth)
    ELSE D

\* emit(eventType, data): a copy of the persistent listeners is invoked,
\* then the one-shot listeners
emit(D, t, depth) ==
    LET D1 == IF Len(D.bus.events[t]) > 0
              THEN invokeAll(D, D.bus.events[t], 1, t, depth)
              ELSE D
    IN IF D1.threw THEN D1 ELSE emitOnce(D1, t, depth)

\* -------------------------------------------------------- serialization
\* component.serialize() of the built-in classes (the scalar fields)
serialize(c) ==
    CASE c.name = "Script" ->
           [scriptName |-> c.scriptName, scriptCode |-> c.scriptCode,
            enabled |-> c.enabled]
      [] c.name = "Collider" ->
           [type |-> c.type, isTrigger |-> c.isTrigger, enabled |-> c.enabled]
      [] c.name = "Light" ->
           [lightType |-> c.lightType, intensity |-> c.intensity,
            distance |-> c.distance, castShadow |-> c.castShadow]

\* typeof component.serialize === 'function'
HasSerialize(c) == c.name \in BuiltinTypes

\* serializeEntity(entityId): the entries of the returned object, in order
serializeEntity(ec, e) ==
    LET cs == getComponents(ec, e)
        Kept[i \in 0..Len(cs)] ==
            IF i = 0 THEN <<>>
            ELSE IF HasSerialize(cs[i])
            THEN Append(Kept[i - 1], [componentName |-> cs[i].name,
                                      data |-> serialize(cs[i])])
            ELSE Kept[i - 1]
    IN Kept[Len(cs)]

\* deserializeEntity(entityId, componentData), from entry k on: addComponent
\* inside try/catch for every entry
RECURSIVE deserializeFrom(_, _, _, _)
deserializeFrom(S, e, entries, k) ==
    IF k > Len(entries) THEN S
    ELSE LET T == addComponent(S, e, entries[k].componentName, entries[k].data)
         IN deserializeFrom(
              [T EXCEPT !.threw = FALSE,
                        !.calls = IF T.threw
                                  THEN Append(@, Call("console.error", 0, 0))
                                  ELSE @],
              e, entries, k + 1)

deserializeEntity(S, e, componentData) ==
    [deserializeFrom(S, e, componentData, 1) EXCEPT !.result = 0]

\* ------------------------------------------------------------- registry
\* as registerComponent, keeping the class a name is already registered with
registerComponent_FirstWins(types, name, cls) ==
    IF name \in DOMAIN types THEN types
    ELSE [n \in DOMAIN types \cup {name} |->
             IF n = name THEN cls ELSE types[n]]

\* registerComponent(name, componentClass): this.componentTypes.set
registerComponent(types, name, cls) ==
    [n \in DOMAIN types \cup {name} |-> IF n = name THEN cls ELSE types[n]]

\* context.on(event, callback) = editor.eventBus.on(event, callback), called
\* by the start() hooks that startScriptExecution runs, from entry i on
\* variant: the subscription is dropped after its first invocation
RECURSIVE startSubscriptions_OneShot(_, _, _)
startSubscriptions_OneShot(b, ec, i) ==
    IF i > Len(ec) THEN b
    ELSE LET c == ScriptAt(ec, i)
             subscribing == /\ c.id # 0
                            /\ ~c.scriptInstance.isNull
                            /\ c.scriptInstance.start
                            /\ Subscribes(c.scriptInstance)
         IN startSubscriptions_OneShot(
              IF subscribing THEN subscribe(b, "once", "a", "script") ELSE b,
              ec, i + 1)

RECURSIVE startSubscriptions(_, _, _)
startSubscriptions(b, ec, i) ==
    IF i > Len(ec) THEN b
    ELSE LET c == ScriptAt(ec, i)
             subscribing == /\ c.id # 0
                            /\ ~c.scriptInstance.isNull
                            /\ c.scriptInstance.start
                            /\ Subscribes(c.scriptInstance)
         IN startSubscriptions(
              IF subscribing THEN subscribe(b, "on", "a", "script") ELSE b,
              ec, i + 1)

\* ------------------------------------------------------- command history
CreateObjectCommand(id) == [kind |-> "Create", object |-> id]
DeleteObjectCommand(id) == [kind |-> "Delete", object |-> id]

\* as executeCommand, leaving commandIndex as it is when the oldest command
\* is dropped
executeCommand_ShiftKeepsIndex(H, command) ==
    LET pushed == Append(SubSeq(H.history, 1, H.index + 1), command)
    IN IF Len(pushed) > maxHistorySize
       THEN [history |-> Tail(pushed), index |-> H.index + 1]
       ELSE [history |-> pushed, index |-> H.index + 1]

\* executeCommand(command) on H = [history, index]: slice(0, index + 1),
\* push, index++, and shift with index-- over maxHistorySize.  execute() of
\* both command classes does nothing.
executeCommand(H, command) ==
    LET pushed == Append(SubSeq(H.history, 1, H.index + 1), command)
    IN IF Len(pushed) > maxHistorySize
       THEN [history |-> Tail(pushed), index |-> H.index]
       ELSE [history |-> pushed, index |-> H.index + 1]

\* The scene, the component system and the command history one synchronous
\* call chain works on: W = [objects, next, S, H]
\* SceneManager.removeObject(id) with its ObjectDeleted listeners
removeObject(W, id) ==
    IF id \notin W.objects
    THEN [W EXCEPT !.S.calls = Append(@, Call("console.warn", 0, 0))]
    ELSE LET S1 == removeAllComponents(W.S, id)
         IN [W EXCEPT
               !.objects = @ \ {id},
               !.S = [S1 EXCEPT
                        !.threw = FALSE,
                        !.calls = IF S1.threw
                                  THEN Append(@, Call("console.error", 0, 0))
                                  ELSE @],
               !.H = executeCommand(@, DeleteObjectCommand(id))]

\* SceneManager.addObject(type, options) of a mesh object, with its
\* ObjectCreated listeners (onObjectCreated adds nothing to a mesh)
addObject(W) ==
    [W EXCEPT !.objects = @ \cup {ObjectId(W.next)},
              !.next = @ + 1,
              !.H = executeCommand(@, CreateObjectCommand(ObjectId(W.next)))]

\* command.undo()
undoCommand(W, command) ==
    IF command.kind = "Create" THEN removeObject(W, command.object)
    ELSE addObject(W)

\* clearScene(): removeObject for every object, from the n-th id on
RECURSIVE clearScene(_, _)
clearScene(W, n) ==
    IF n > MaxObjects THEN W
    ELSE clearScene(IF ObjectId(n) \in W.objects
                    THEN removeObject(W, ObjectId(n)) ELSE W,
                    n + 1)

\* ------------------------------------------------------------------ Init
\* The state after `new ComponentSystem(eventBus)`: built-in types
\* registered, the update loop started, the editor in edit mode; the scene
\* holds the plain mesh objects e1 and e2 (onObjectCreated adds no component
\* to a mesh).
Init ==
    /\ componentTypes = [name \in BuiltinTypes |-> name]
    /\ entityComponents = <<>>
    /\ updateableComponents = {}
    /\ scriptStartTime = 0
    /\ scriptPauseTime = 0
    /\ totalPausedTime = 0
    /\ isUpdating = TRUE
    /\ chains = 1
    /\ lastTime = 1
    /\ editorMode = "edit"
    /\ objects = Entities
    /\ objectGen = [e \in ObjectNames |-> 1]
    /\ bus = EmptyBus
    /\ now = 1
    /\ calls = <<>>
    /\ ret = Ret(0, FALSE)
    /\ playingTime = 0
    /\ lastPlayRead = -1
    /\ lastPauseRead = -1
    /\ commandHistory = <<>>
    /\ commandIndex = -1
    /\ nextObjectId = Cardinality(Entities) + 1
    /\ scriptTemplates = BuiltinTemplates

SceneVars == <<objects, objectGen>>
ClockVars == <<scriptStartTime, scriptPauseTime, totalPausedTime, now,
               playingTime, lastPlayRead, lastPauseRead>>
LoopVars == <<isUpdating, chains, lastTime>>
HistoryVars == <<commandHistory, commandIndex>>
EditorVars == <<HistoryVars, nextObjectId, scriptTemplates>>

\* commit the outcome of a call chain on the store
Commit(S) ==
    /\ entityComponents' = S.ec
    /\ updateableComponents' = S.upd
    /\ componentTypes' = S.types
    /\ calls' = S.calls

Start == Sys(entityComponents, updateableComponents, componentTypes)

\* --------------------------------------------------------------- actions
\* registerComponent('Custom', componentClass), called by a plugin
RegisterAs(cls) ==
    /\ componentTypes' = registerComponent(componentTypes, "Custom", cls)
    /\ calls' = <<Call("registerComponent", 0, 0)>>
    /\ ret' = Ret(0, FALSE)
    /\ UNCHANGED <<entityComponents, updateableComponents, ClockVars,
                   LoopVars, editorMode, SceneVars, bus>>
    /\ UNCHANGED EditorVars

\* registerComponent('Custom', componentClass) of the first plugin
RegisterComponent ==
    /\ componentTypes' = registerComponent(componentTypes, "Custom", "PluginA")
    /\ calls' = <<>>
    /\ ret' = Ret(0, FALSE)
    /\ UNCHANGED <<entityComponents, updateableComponents, ClockVars,
                   LoopVars, editorMode, SceneVars, bus>>
    /\ UNCHANGED EditorVars

\* addComponent(entityId, componentName, data), called by the UI or a plugin
AddComponent(e, name, data) ==
    /\ \/ name \notin DOMAIN componentTypes
       \/ hasComponent(entityComponents, e, name)
       \/ StoredCount(entityComponents) < MaxComponents
    /\ LET S == addComponent(Start, e, name, data)
       IN /\ Commit(S)
          /\ ret' = Ret(S.result, S.threw)
    /\ UNCHANGED <<ClockVars, LoopVars, editorMode, SceneVars, bus>>
    /\ UNCHANGED EditorVars

\* removeComponent(entityId, componentName)
RemoveComponent(e, name) ==
    /\ LET S == removeComponent(Start, e, name)
       IN /\ Commit(S)
          /\ ret' = Ret(S.result, S.threw)
    /\ UNCHANGED <<ClockVars, LoopVars, editorMode, SceneVars, bus>>
    /\ UNCHANGED EditorVars

\* removeAllComponents(entityId)
RemoveAllComponents(e) ==
    /\ LET S == removeAllComponents(Start, e)
       IN /\ Commit(S)
          /\ ret' = Ret(0, S.threw)
    /\ UNCHANGED <<ClockVars, LoopVars, editorMode, SceneVars, bus>>
    /\ UNCHANGED EditorVars

\* getComponent / getComponents / hasComponent, called by the UI or a script
ReadStore(op, e, name) ==
    /\ LET S == readStore(Start, op, e, name)
       IN /\ Commit(S)
          /\ ret' = Ret(S.result, S.threw)
    /\ UNCHANGED <<ClockVars, LoopVars, editorMode, SceneVars, bus>>
    /\ UNCHANGED EditorVars

\* SceneManager.removeObject(id): the object leaves the scene and the
\* ObjectDeleted notification runs onObjectDeleted, which calls
\* removeAllComponents(id), and the listener of EditorCore, which calls
\* executeCommand(new DeleteObjectCommand(object)); EventBus.emit catches and
\* logs what a listener throws.
RemoveObject(e) ==
    /\ e \in objects
    /\ objects' = objects \ {e}
    /\ LET S == removeAllComponents(Start, e)
       IN /\ Commit([S EXCEPT !.calls =
                        IF S.threw THEN Append(@, Call("console.error", 0, 0))
                        ELSE @])
          /\ ret' = Ret(1, FALSE)
    /\ LET H == executeCommand([history |-> commandHistory,
                                index |-> commandIndex],
                               DeleteObjectCommand(e))
       IN /\ commandHistory' = H.history
          /\ commandIndex' = H.index
    /\ UNCHANGED <<ClockVars, LoopVars, editorMode, objectGen, bus,
                   nextObjectId, scriptTemplates>>

\* loadExhibition, for one saved object: sceneManager.objects.set(id, a new
\* object), over the object the id had if any, and then
\* addComponent(id, 'Script', {scriptName: 'Metadata', ...}), which returns
\* the Script the entity has or compiles a new one for the new object.
ReplaceObject(e) ==
    /\ objectGen[e] < MaxGen
    /\ \/ hasComponent(entityComponents, e, "Script")
       \/ StoredCount(entityComponents) < MaxComponents
    /\ objects' = objects \cup {e}
    /\ objectGen' = [objectGen EXCEPT ![e] = @ + 1]
    /\ LET S == addComponent(Start, e, "Script", [scriptName |-> "Metadata"])
           i == EntIdx(S.ec, e)
           j == CompIdx(S.ec[i].components, "Script")
           \* a context created now reads the object just set
           T == IF hasComponent(entityComponents, e, "Script") THEN S
                ELSE [S EXCEPT !.ec[i].components[j].scriptInstance
                                    .context.gameObject = objectGen[e] + 1]
       IN /\ Commit(T)
          /\ ret' = Ret(T.result, T.threw)
    /\ UNCHANGED <<ClockVars, LoopVars, editorMode, bus>>
    /\ UNCHANGED EditorVars

\* UIManager.updateScriptProperty(entityId, 'scriptCode', value): the text
\* is assigned and compileScript() runs
UpdateScriptProperty(e, value) ==
    /\ IF hasComponent(entityComponents, e, "Script")
       THEN LET i == EntIdx(entityComponents, e)
                j == CompIdx(entityComponents[i].components, "Script")
                c == entityComponents[i].components[j]
            IN /\ entityComponents' =
                     [entityComponents EXCEPT ![i].components[j] =
                         compileScript([c EXCEPT !.scriptCode = value])]
               /\ calls' = <<Call("compileScript", c.id, 0)>>
               /\ ret' = Ret(c.id, FALSE)
       ELSE /\ calls' = <<>>
            /\ ret' = Ret(0, FALSE)
            /\ UNCHANGED entityComponents
    /\ UNCHANGED <<componentTypes, updateableComponents, ClockVars, LoopVars,
                   editorMode, SceneVars, bus>>
    /\ UNCHANGED EditorVars

\* UIManager.updateScriptProperty(entityId, 'enabled', value): the flag is
\* assigned, nothing is compiled
SetEnabled(e, value) ==
    /\ IF hasComponent(entityComponents, e, "Script")
       THEN LET i == EntIdx(entityComponents, e)
                j == CompIdx(entityComponents[i].components, "Script")
                c == entityComponents[i].components[j]
            IN /\ entityComponents' =
                     [entityComponents EXCEPT ![i].components[j].enabled = value]
               /\ ret' = Ret(c.id, FALSE)
       ELSE /\ ret' = Ret(0, FALSE)
            /\ UNCHANGED entityComponents
    /\ calls' = <<>>
    /\ UNCHANGED <<componentTypes, updateableComponents, ClockVars, LoopVars,
                   editorMode, SceneVars, bus>>
    /\ UNCHANGED EditorVars

\* UIManager.updateLightProperty(entityId, 'intensity', value):
\* lightComponent.setIntensity(value)
SetIntensity(e, value) ==
    /\ hasComponent(entityComponents, e, "Light")
    /\ LET i == EntIdx(entityComponents, e)
           j == CompIdx(entityComponents[i].components, "Light")
       IN /\ entityComponents' =
                [entityComponents EXCEPT ![i].components[j].intensity = value]
          /\ calls' = <<Call("setIntensity",
                             entityComponents[i].components[j].id, 0)>>
          /\ ret' = Ret(value, FALSE)
    /\ UNCHANGED <<componentTypes, updateableComponents, ClockVars, LoopVars,
                   editorMode, SceneVars, bus>>
    /\ UNCHANGED EditorVars

\* UIManager.updateColliderProperty(entityId, 'isTrigger', value)
SetIsTrigger(e, value) ==
    /\ hasComponent(entityComponents, e, "Collider")
    /\ LET i == EntIdx(entityComponents, e)
           j == CompIdx(entityComponents[i].components, "Collider")
       IN /\ entityComponents' =
                [entityComponents EXCEPT ![i].components[j].isTrigger = value]
          /\ calls' = <<Call("isTrigger",
                             entityComponents[i].components[j].id, 0)>>
          /\ ret' = Ret(0, FALSE)
    /\ UNCHANGED <<componentTypes, updateableComponents, ClockVars, LoopVars,
                   editorMode, SceneVars, bus>>
    /\ UNCHANGED EditorVars

\* deserializeEntity(f, serializeEntity(e))
CopyEntity(e, f) ==
    /\ e # f
    /\ StoredCount(entityComponents) + Len(getComponents(entityComponents, e))
          <= 2 * MaxComponents
    /\ LET S == deserializeEntity(Start, f, serializeEntity(entityComponents, e))
       IN /\ Commit([S EXCEPT !.calls = <<Call("deserializeEntity", 0, 0)>> \o @])
          /\ ret' = Ret(0, S.threw)
    /\ UNCHANGED <<ClockVars, LoopVars, editorMode, SceneVars, bus>>
    /\ UNCHANGED EditorVars

\* One frame callback of the update loop (the closure `update`).  An
\* exception of updateComponents leaves the closure before
\* requestAnimationFrame(update): the chain is not rescheduled.
Tick ==
    /\ chains > 0
    /\ isUpdating
    /\ \A c \in AllComponents(entityComponents) :
          c.name = "Script" => c.count < MaxCount
    /\ LET deltaTime == now - lastTime
           S == updateComponents(Start, deltaTime, editorMode, objects)
       IN /\ Commit(S)
          /\ chains' = IF S.threw THEN chains - 1 ELSE chains
          /\ ret' = Ret(deltaTime, S.threw)
    /\ lastTime' = now
    /\ UNCHANGED <<isUpdating, ClockVars, editorMode, SceneVars, bus>>
    /\ UNCHANGED EditorVars

\* startUpdateLoop(): a new closure `update` with its own lastTime, called
\* once at the end of startUpdateLoop; it reschedules itself unless
\* updateComponents throws.
StartUpdateLoop ==
    /\ chains < MaxChains
    /\ isUpdating' = TRUE
    /\ lastTime' = now
    /\ LET S == updateComponents(Start, 0, editorMode, objects)
       IN /\ Commit(S)
          /\ chains' = IF S.threw THEN chains ELSE chains + 1
          /\ ret' = Ret(0, S.threw)
    /\ UNCHANGED <<ClockVars, editorMode, SceneVars, bus>>
    /\ UNCHANGED EditorVars

\* stopUpdateLoop()
StopUpdateLoop ==
    /\ isUpdating' = FALSE
    /\ calls' = <<>>
    /\ ret' = Ret(0, FALSE)
    /\ UNCHANGED <<componentTypes, entityComponents, updateableComponents,
                   chains, lastTime, ClockVars, editorMode, SceneVars, bus>>
    /\ UNCHANGED EditorVars

\* One frame callback that finds isUpdating false: `if (!this.isUpdating)
\* return`, the closure is not rescheduled.
ChainEnds ==
    /\ chains > 0
    /\ ~isUpdating
    /\ chains' = chains - 1
    /\ calls' = <<>>
    /\ ret' = Ret(0, FALSE)
    /\ UNCHANGED <<componentTypes, entityComponents, updateableComponents,
                   isUpdating, lastTime, ClockVars, editorMode, SceneVars, bus>>
    /\ UNCHANGED EditorVars

\* dispose(): stopUpdateLoop(), removeAllComponents for every entity of the
\* store, then the registry, the store, the updateable set and the template
\* registry are cleared; an exception from a destroy() ends it before that
Dispose ==
    /\ isUpdating' = FALSE
    /\ LET ids == [i \in 1..Len(entityComponents) |-> entityComponents[i].entity]
           S == disposeEach(Start, ids)
       IN /\ IF S.threw
             THEN /\ Commit(S)
                  /\ UNCHANGED scriptTemplates
             ELSE /\ Commit([S EXCEPT !.ec = <<>>, !.upd = {},
                                      !.types = [name \in {} |-> name]])
                  /\ scriptTemplates' = {}
          /\ ret' = Ret(0, S.threw)
    /\ UNCHANGED <<chains, lastTime, ClockVars, editorMode, SceneVars, bus,
                   HistoryVars, nextObjectId>>

\* the state a call chain of the editor starts from and ends with
World ==
    [objects |-> objects, next |-> nextObjectId, S |-> Start,
     H |-> [history |-> commandHistory, index |-> commandIndex]]

CommitWorld(W) ==
    /\ objects' = W.objects
    /\ nextObjectId' = W.next
    /\ Commit(W.S)
    /\ commandHistory' = W.H.history
    /\ commandIndex' = W.H.index

EditorFrame == <<ClockVars, LoopVars, editorMode, objectGen, bus,
                 scriptTemplates>>

\* sceneManager.addObject('cube'), from the UI
AddObject ==
    /\ nextObjectId <= MaxObjects
    /\ CommitWorld(addObject(World))
    /\ ret' = Ret(1, FALSE)
    /\ UNCHANGED EditorFrame

\* deleteSelected() with one object selected: removeObject(id), then
\* executeCommand of the DeleteObjectCommand made for it
DeleteSelected(e) ==
    /\ e \in objects
    /\ LET W == removeObject(World, e)
       IN CommitWorld([W EXCEPT
                         !.H = executeCommand(@, DeleteObjectCommand(e))])
    /\ ret' = Ret(1, FALSE)
    /\ UNCHANGED EditorFrame

\* undo()
Undo ==
    /\ IF commandIndex >= 0
       THEN LET command == commandHistory[commandIndex + 1]
                W == undoCommand(World, command)
            IN /\ command.kind = "Delete" => nextObjectId <= MaxObjects
               /\ CommitWorld([W EXCEPT !.H.index = @ - 1])
       ELSE /\ calls' = <<>>
            /\ UNCHANGED <<objects, nextObjectId, componentTypes,
                           entityComponents, updateableComponents, HistoryVars>>
    /\ ret' = Ret(0, FALSE)
    /\ UNCHANGED EditorFrame

\* redo()
Redo ==
    /\ commandIndex' = IF commandIndex < Len(commandHistory) - 1
                       THEN commandIndex + 1 ELSE commandIndex
    /\ calls' = <<>>
    /\ ret' = Ret(0, FALSE)
    /\ UNCHANGED <<objects, nextObjectId, componentTypes, entityComponents,
                   updateableComponents, commandHistory, EditorFrame>>

\* newProject(): with unsaved changes the user is asked and may decline;
\* clearScene(), then the history is emptied
NewProject(confirmed) ==
    /\ IF Len(commandHistory) > 0 /\ ~confirmed
       THEN /\ calls' = <<>>
            /\ UNCHANGED <<objects, nextObjectId, componentTypes,
                           entityComponents, updateableComponents, HistoryVars>>
       ELSE CommitWorld([clearScene(World, 1) EXCEPT
                           !.H = [history |-> <<>>, index |-> -1]])
    /\ ret' = Ret(0, FALSE)
    /\ UNCHANGED EditorFrame

\* everything but the event bus, the call log and the returned value
SystemVars == <<componentTypes, entityComponents, updateableComponents,
                ClockVars, LoopVars, editorMode, SceneVars>>

\* eventBus.on(t, callback) / eventBus.once(t, callback), with a new callback
Subscribe(mode, t, kind) ==
    /\ Len(bus.made) < MaxListeners
    /\ bus' = subscribe(bus, mode, t, kind)
    /\ calls' = <<>>
    /\ ret' = Ret(Len(bus.made) + 1, FALSE)
    /\ UNCHANGED SystemVars
    /\ UNCHANGED EditorVars

\* the unsubscribe function that on / once returned for callback id
Unsubscribe(id) ==
    /\ id \in 1..Len(bus.made)
    /\ bus' = unsubscribe(bus, bus.made[id].mode, bus.made[id].type, id)
    /\ calls' = <<>>
    /\ ret' = Ret(id, FALSE)
    /\ UNCHANGED SystemVars
    /\ UNCHANGED EditorVars

\* eventBus.emit(t, data)
EmitEvent(t) ==
    /\ \A id \in 1..MaxListeners : bus.count[id] + 2 <= MaxInvocations
    /\ Len(bus.made)
         + Cardinality({l \in Range(bus.events[t]) \cup Range(bus.onceEvents[t]) :
                          l.kind \in {"subscribes", "subscribesOnce"}})
         <= MaxListeners
    /\ LET D == emit(Dispatch(bus), t, 0)
       IN /\ bus' = D.bus
          /\ calls' = Append(D.calls, Call("emit", 0, 0))
          /\ ret' = Ret(0, D.threw)
    /\ UNCHANGED SystemVars
    /\ UNCHANGED EditorVars

\* real time passes
AdvanceTime(d) ==
    /\ now + d <= MaxTime
    /\ now' = now + d
    /\ playingTime' = IF editorMode = "play" THEN playingTime + d ELSE playingTime
    /\ calls' = <<>>
    /\ ret' = Ret(d, FALSE)
    /\ UNCHANGED <<componentTypes, entityComponents, updateableComponents,
                   scriptStartTime, scriptPauseTime, totalPausedTime,
                   lastPlayRead, lastPauseRead, LoopVars, editorMode, SceneVars, bus>>
    /\ UNCHANGED EditorVars

\* a script callback reads context.time.getTime()
ReadTime ==
    /\ \E c \in AllComponents(entityComponents) :
          c.name = "Script" /\ ~c.scriptInstance.isNull
    /\ lastPlayRead' = IF editorMode = "play" THEN getTime ELSE lastPlayRead
    /\ lastPauseRead' = IF editorMode = "pause" THEN getTime ELSE lastPauseRead
    /\ calls' = <<>>
    /\ ret' = Ret(getTime, FALSE)
    /\ UNCHANGED <<componentTypes, entityComponents, updateableComponents,
                   scriptStartTime, scriptPauseTime, totalPausedTime, now,
                   playingTime, LoopVars, editorMode, SceneVars, bus>>
    /\ UNCHANGED EditorVars

\* startScriptExecution()
StartScriptExecution ==
    /\ Len(startSubscriptions(bus, entityComponents, 1).made) <= MaxListeners
    /\ scriptStartTime' = now
    /\ totalPausedTime' = 0
    /\ Commit(startScripts(Start))
    /\ bus' = startSubscriptions(bus, entityComponents, 1)
    /\ UNCHANGED scriptPauseTime

\* pauseScriptExecution()
PauseScriptExecution ==
    /\ scriptPauseTime' = now
    /\ UNCHANGED <<scriptStartTime, totalPausedTime>>

\* as ResumeScriptExecution, clearing the pause mark without adding the pause
ResumeScriptExecution_DropsPause ==
    /\ scriptPauseTime' = 0
    /\ UNCHANGED <<scriptStartTime, totalPausedTime>>

\* resumeScriptExecution()
ResumeScriptExecution ==
    /\ IF scriptPauseTime > 0
       THEN /\ totalPausedTime' = totalPausedTime + (now - scriptPauseTime)
            /\ scriptPauseTime' = 0
       ELSE UNCHANGED <<totalPausedTime, scriptPauseTime>>
    /\ UNCHANGED scriptStartTime

\* stopScriptExecution()
StopScriptExecution == Commit(stopScripts(Start))

\* as ResetScriptExecution, leaving the start timestamp in place
ResetScriptExecution_KeepsStart ==
    /\ scriptPauseTime' = 0
    /\ totalPausedTime' = 0
    /\ UNCHANGED scriptStartTime

\* resetScriptExecution(): the three clock fields (the script contexts are
\* reset by resetContexts)
ResetScriptExecution ==
    /\ scriptStartTime' = 0
    /\ scriptPauseTime' = 0
    /\ totalPausedTime' = 0

\* what a direct call of the clock API leaves alone
ApiFrame == <<now, playingTime, lastPlayRead, lastPauseRead, LoopVars,
              editorMode, SceneVars>>

\* startScriptExecution(), called directly
CallStart ==
    /\ StartScriptExecution
    /\ ret' = Ret(0, FALSE)
    /\ UNCHANGED ApiFrame
    /\ UNCHANGED EditorVars

\* pauseScriptExecution(), called directly
CallPause ==
    /\ PauseScriptExecution
    /\ calls' = <<Call("pauseScriptExecution", 0, 0)>>
    /\ ret' = Ret(0, FALSE)
    /\ UNCHANGED <<componentTypes, entityComponents, updateableComponents,
                   ApiFrame, bus>>
    /\ UNCHANGED EditorVars

\* resumeScriptExecution(), called directly
CallResume ==
    /\ ResumeScriptExecution
    /\ calls' = <<Call("resumeScriptExecution", 0, 0)>>
    /\ ret' = Ret(0, FALSE)
    /\ UNCHANGED <<componentTypes, entityComponents, updateableComponents,
                   ApiFrame, bus>>
    /\ UNCHANGED EditorVars

\* stopScriptExecution(), called directly
CallStop ==
    /\ StopScriptExecution
    /\ ret' = Ret(0, FALSE)
    /\ UNCHANGED <<scriptStartTime, scriptPauseTime, totalPausedTime,
                   ApiFrame, bus>>
    /\ UNCHANGED EditorVars

\* resetScriptExecution(), called directly
CallReset ==
    /\ ResetScriptExecution
    /\ Commit(resetContexts(Start))
    /\ ret' = Ret(0, FALSE)
    /\ UNCHANGED <<ApiFrame, bus>>
    /\ UNCHANGED EditorVars

\* play pressed while stopped: Stopped -> Playing
PlayFromStopped ==
    /\ editorMode = "edit"
    /\ editorMode' = "play"
    /\ StartScriptExecution
    /\ playingTime' = 0
    /\ lastPlayRead' = -1
    /\ lastPauseRead' = -1
    /\ ret' = Ret(0, startScripts(Start).threw)
    /\ UNCHANGED <<now, LoopVars, SceneVars>>
    /\ UNCHANGED EditorVars

\* play pressed while paused: Paused -> Playing
PlayFromPaused ==
    /\ editorMode = "pause"
    /\ editorMode' = "play"
    /\ ResumeScriptExecution
    /\ lastPauseRead' = -1
    /\ calls' = <<>>
    /\ ret' = Ret(0, FALSE)
    /\ UNCHANGED <<componentTypes, entityComponents, updateableComponents,
                   now, playingTime, lastPlayRead, LoopVars, SceneVars, bus>>
    /\ UNCHANGED EditorVars

PlayScene == PlayFromStopped \/ PlayFromPaused

\* pause pressed: Playing -> Paused
PauseScene ==
    /\ editorMode = "play"
    /\ editorMode' = "pause"
    /\ PauseScriptExecution
    /\ calls' = <<>>
    /\ ret' = Ret(0, FALSE)
    /\ UNCHANGED <<componentTypes, entityComponents, updateableComponents,
                   now, playingTime, lastPlayRead, lastPauseRead, LoopVars,
                   SceneVars, bus>>
    /\ UNCHANGED EditorVars

\* stop pressed: Playing | Paused -> Stopped
StopScene ==
    /\ editorMode \in {"play", "pause"}
    /\ editorMode' = "edit"
    /\ Commit(resetContexts(stopScripts(Start)))
    /\ ResetScriptExecution
    /\ lastPlayRead' = -1
    /\ lastPauseRead' = -1
    /\ ret' = Ret(0, stopScripts(Start).threw)
    /\ UNCHANGED <<now, playingTime, LoopVars, SceneVars, bus>>
    /\ UNCHANGED EditorVars

\* The Entity-Component Store under its API, in edit mode.
Next ==
    \/ RegisterComponent
    \/ \E e \in Entities, name \in TypeNames \cup {UnknownType} :
          \E data \in DataFor(name) : AddComponent(e, name, data)
    \/ \E e \in Entities, name \in TypeNames : RemoveComponent(e, name)
    \/ \E e \in Entities : RemoveAllComponents(e)

Spec == Init /\ [][Next]_vars

\* ------------------------------------------------ reading the call log
\* the stored component with this id
ById(ec, id) == CHOOSE c \in AllComponents(ec) : c.id = id
\* how often fn was called on component id
CountCalls(log, fn, id) ==
    Cardinality({k \in 1..Len(log) : log[k].fn = fn /\ log[k].id = id})
\* the Script components whose instance has the hook
ScriptsWith(ec, hook) ==
    {c \in AllComponents(ec) :
       c.name = "Script" /\ ~c.scriptInstance.isNull /\ c.scriptInstance[hook]}

\* ---------------------------------------------------- claims on the store
\* C1: for every entity E and type name T, whatever addComponent,
\* removeComponent and removeAllComponents calls were made (failing ones
\* included), the system holds at most one component instance for (E, T):
\* one entry in E's map, and no second instance of (E, T) left in the
\* updateable set.
C1_AtMostOnePerPair ==
    \A e \in Entities, name \in TypeNames :
       LET cs == getComponents(entityComponents, e)
       IN /\ Cardinality({j \in 1..Len(cs) : cs[j].name = name}) <= 1
          /\ Cardinality({c.id : c \in {x \in Range(cs) : x.name = name}}
                  \cup {r.id : r \in {x \in updateableComponents :
                                        x.entity = e /\ x.name = name}}) <= 1

\* an entity holds two components and the last call was an addComponent on
\* a pair already present
C1_Witness ==
    \E e \in Entities :
       /\ Len(getComponents(entityComponents, e)) = 2
       /\ Len(calls) = 1 /\ calls[1].fn = "console.warn" /\ calls[1].id # 0

\* C2: addComponent(E,T,d2) on a pair that already has a component does not
\* throw, constructs nothing, returns the instance already stored, and
\* leaves that instance and the store as they were.
C2_IdempotentAdd ==
    [][\A e \in Entities, name \in TypeNames : \A data \in DataFor(name) :
         (hasComponent(entityComponents, e, name) /\ AddComponent(e, name, data))
           => /\ ~ret'.threw
              /\ ret'.result = getComponent(entityComponents, e, name).id
              /\ \A k \in 1..Len(calls') : calls'[k].fn # "new"
              /\ getComponent(entityComponents', e, name)
                    = getComponent(entityComponents, e, name)
              /\ entityComponents' = entityComponents
              /\ updateableComponents' = updateableComponents]_vars

\* a Script built from one text was returned by a second addComponent
C2_Witness ==
    \E e \in Entities :
       /\ hasComponent(entityComponents, e, "Script")
       /\ getComponent(entityComponents, e, "Script").scriptCode = "full"
       /\ calls = <<Call("console.warn",
                         getComponent(entityComponents, e, "Script").id, 0)>>
       /\ ret = Ret(getComponent(entityComponents, e, "Script").id, FALSE)

\* C8: whenever compileScript caught an error (parsing the text or
\* evaluating its top-level statements), the component's scriptInstance is
\* null.
C8_CompileErrorLeavesNull ==
    \A c \in AllComponents(entityComponents) :
       (c.name = "Script" /\ c.compileError) => c.scriptInstance.isNull

\* the script data whose text fails to compile
FailingScriptData ==
    {d \in ScriptData : ParseFails(OrStr(d, "scriptCode", ""))
                        \/ EvalThrows(OrStr(d, "scriptCode", ""))}

C17_UnknownTypeRejected ==
    [][\A e \in Entities, name \in TypeNames \cup {UnknownType} :
         \A data \in DataFor(name) :
           (name \notin DOMAIN componentTypes /\ AddComponent(e, name, data))
             => /\ ret'.threw
                /\ entityComponents' = entityComponents
                /\ updateableComponents' = updateableComponents
                /\ HasMap(entityComponents', e) = HasMap(entityComponents, e)
                /\ \A k \in 1..Len(calls') :
                      calls'[k].fn \notin {"new", "emit:component:added"}]_vars

\* an addComponent just failed on the type lookup, with one entity holding a
\* component and the other without a component map
C17_Witness ==
    /\ ret = Ret(0, TRUE)
    /\ calls = <<Call("throw", 0, 0)>>
    /\ \E e, f \in Entities :
          /\ Len(getComponents(entityComponents, e)) = 1
          /\ ~HasMap(entityComponents, f)

\* C18: removeComponent(E,T) on a present component calls that instance's
\* destroy() once; afterwards hasComponent(E,T) is false, getComponent(E,T)
\* is null, E's other components are unchanged and E's entry is deleted when
\* T was its last component.
C18_RemoveDestroysAndDeletes ==
    [][\A e \in Entities, name \in TypeNames :
         (hasComponent(entityComponents, e, name) /\ RemoveComponent(e, name))
           => /\ CountCalls(calls', "comp.destroy",
                            getComponent(entityComponents, e, name).id) = 1
              /\ ~hasComponent(entityComponents', e, name)
              /\ getComponent(entityComponents', e, name) = NoComponent
              /\ \A n \in TypeNames \ {name} :
                    getComponent(entityComponents', e, n)
                      = getComponent(entityComponents, e, n)
              /\ Len(getComponents(entityComponents, e)) = 1
                    => ~HasMap(entityComponents', e)]_vars

\* C19: removeComponent(E,T) when E has no component map or no component of
\* type T returns false, throws nothing, calls no destroy(), emits no
\* notification and leaves the store unchanged.
C19_RemoveAbsentIsNoOp ==
    [][\A e \in Entities, name \in TypeNames :
         (~hasComponent(entityComponents, e, name) /\ RemoveComponent(e, name))
           => /\ ret' = Ret(0, FALSE)
              /\ \A k \in 1..Len(calls') :
                    calls'[k].fn \notin {"comp.destroy", "onDestroy",
                                        "emit:component:removed"}
              /\ entityComponents' = entityComponents
              /\ updateableComponents' = updateableComponents]_vars

\* a removeComponent just missed, on a store that holds a component
C19_Witness ==
    /\ ret = Ret(0, FALSE)
    /\ calls = <<Call("console.warn", 0, 0)>>
    /\ StoredCount(entityComponents) >= 1

\* the notifications of this event in a call log
Emitted(log, event) == {k \in 1..Len(log) : log[k].fn = event}

\* C21: an addComponent that stores a new component emits component:added
\* once and a removeComponent that removes one emits component:removed once;
\* the notification carries the entity id, the type name and that instance,
\* and when it is emitted the store already holds (no longer holds) the
\* instance under that pair.
C21_OneNotificationPerChange ==
    [][\A e \in Entities, name \in TypeNames :
         /\ \A data \in DataFor(name) :
              (/\ AddComponent(e, name, data)
               /\ ~hasComponent(entityComponents, e, name)
               /\ hasComponent(entityComponents', e, name))
                => /\ Cardinality(Emitted(calls', "emit:component:added")) = 1
                   /\ \A k \in Emitted(calls', "emit:component:added") :
                         /\ calls'[k].id = getComponent(entityComponents', e, name).id
                         /\ calls'[k].entityId = e
                         /\ calls'[k].componentName = name
                         /\ calls'[k].present
         /\ (/\ RemoveComponent(e, name)
             /\ hasComponent(entityComponents, e, name)
             /\ ~hasComponent(entityComponents', e, name))
              => /\ Cardinality(Emitted(calls', "emit:component:removed")) = 1
                 /\ \A k \in Emitted(calls', "emit:component:removed") :
                       /\ calls'[k].id = getComponent(entityComponents, e, name).id
                       /\ calls'[k].entityId = e
                       /\ calls'[k].componentName = name
                       /\ ~calls'[k].present]_vars

\* a component was just removed from an entity that keeps another one, and
\* the notification was emitted
C21_Witness ==
    /\ ret = Ret(1, FALSE)
    /\ calls # <<>>
    /\ calls[Len(calls)].fn = "emit:component:removed"
    /\ Len(getComponents(entityComponents, calls[Len(calls)].entityId)) = 1

\* The store while the scene deletes objects.
SceneData(name) ==
    CASE name = "Script" -> {[scriptCode |-> "full"]}
      [] name = "Collider" -> {EmptyData}
      [] OTHER -> {[kind |-> "ok"], [kind |-> "throwCtor"],
                   [kind |-> "throwDestroy"]}

NextScene ==
    \/ RegisterComponent
    \/ \E e \in Entities, name \in {"Script", "Collider", "Custom"} :
          \E data \in SceneData(name) : AddComponent(e, name, data)
    \/ \E e \in Entities : RemoveAllComponents(e)
    \/ \E e \in Entities : RemoveObject(e)

SpecScene == Init /\ [][NextScene]_vars

\* C20: after removeAllComponents(E), called directly or through the
\* ObjectDeleted notification for E, getComponents(E) is empty, E has no
\* entry in the store, destroy() was called once on each component E owned
\* and the other entities' components are as before.
C20_RemoveAllLeavesNothing ==
    [][\A e \in Entities :
         (RemoveAllComponents(e) \/ RemoveObject(e))
           => /\ getComponents(entityComponents', e) = <<>>
              /\ ~HasMap(entityComponents', e)
              /\ \A c \in Range(getComponents(entityComponents, e)) :
                    CountCalls(calls', "comp.destroy", c.id) = 1
              /\ \A f \in Entities \ {e} :
                    getComponents(entityComponents', f)
                      = getComponents(entityComponents, f)]_vars

\* The store under its read accessors.
Accessors == {"getComponent", "getComponents", "hasComponent"}

NextRead ==
    \/ RegisterComponent
    \/ \E e \in Entities, name \in {"Script", "Collider", "Custom"} :
          \E data \in SceneData(name) : AddComponent(e, name, data)
    \/ \E e \in Entities, name \in TypeNames : RemoveComponent(e, name)
    \/ \E op \in Accessors, e \in Entities, name \in TypeNames \cup {UnknownType} :
          ReadStore(op, e, name)

SpecRead == Init /\ [][NextRead]_vars

\* C22: getComponent, getComponents and hasComponent leave the store as it
\* is (no component map appears for the entity) and throw nothing; for an
\* entity without a component map they return null, an empty array and false.
C22_AccessorsArePure ==
    [][\A op \in Accessors, e \in Entities, name \in TypeNames \cup {UnknownType} :
         ReadStore(op, e, name)
           => /\ entityComponents' = entityComponents
              /\ updateableComponents' = updateableComponents
              /\ componentTypes' = componentTypes
              /\ ~ret'.threw
              /\ ~HasMap(entityComponents, e)
                    => /\ ret'.result = 0
                       /\ getComponent(entityComponents, e, name) = NoComponent
                       /\ getComponents(entityComponents, e) = <<>>
                       /\ ~hasComponent(entityComponents, e, name)
                       /\ ~HasMap(entityComponents', e)]_vars

\* an accessor just returned a stored component while the other entity has
\* no component map
C22_Witness ==
    /\ calls = <<>>
    /\ ~ret.threw
    /\ \E e, f \in Entities :
          /\ \E c \in Range(getComponents(entityComponents, e)) :
                c.id = ret.result /\ c.id = 2
          /\ ~HasMap(entityComponents, f)

\* Play, pause and stop with the update scheduler, while components come
\* and go.
PlayData(name) ==
    CASE name = "Script" -> {[scriptCode |-> "full"],
                             [scriptCode |-> "full", enabled |-> FALSE]}
      [] name = "Collider" -> {EmptyData}
      [] OTHER -> {[kind |-> "throwUpdate"]}

NextPlay ==
    \/ RegisterComponent
    \/ \E e \in Entities, name \in {"Script", "Collider", "Custom"} :
          \E data \in PlayData(name) : AddComponent(e, name, data)
    \/ \E e \in Entities, name \in {"Script", "Collider", "Custom"} :
          RemoveComponent(e, name)
    \/ \E e \in Entities : RemoveAllComponents(e)
    \/ Tick
    \/ PlayScene
    \/ PauseScene
    \/ StopScene

SpecPlay == Init /\ [][NextPlay]_vars

\* ------------------------------------------- claims on the script lifecycle

\* C3: start() is called exactly once per Stopped -> Playing transition on
\* every script that has it, and no script that has a start() receives
\* update() in a play session before its start() was called in that session.
C3_StartOnceBeforeUpdate ==
    [][/\ (editorMode = "edit" /\ editorMode' = "play")
            => \A c \in ScriptsWith(entityComponents, "start") :
                  CountCalls(calls', "start", c.id) = 1
       /\ \A k \in 1..Len(calls') :
            (calls'[k].fn = "update"
               /\ ById(entityComponents', calls'[k].id).scriptInstance.start)
              => ById(entityComponents', calls'[k].id).scriptInstance.started]_vars

\* C4: a Script component that is present and has onDestroy gets exactly one
\* onDestroy() call in every transition into Stopped, and none in any other
\* step that leaves it present.
C4_OnDestroyOncePerStop ==
    [][\A c \in ScriptsWith(entityComponents, "onDestroy") :
         IF editorMode \in {"play", "pause"} /\ editorMode' = "edit"
         THEN CountCalls(calls', "onDestroy", c.id) = 1
         ELSE (\E d \in AllComponents(entityComponents') : d.id = c.id)
                => CountCalls(calls', "onDestroy", c.id) = 0]_vars

\* playback was just stopped and a script that is still stored got its
\* onDestroy() call
C4_Witness ==
    /\ editorMode = "edit"
    /\ \E c \in ScriptsWith(entityComponents, "onDestroy") :
          /\ CountCalls(calls, "onDestroy", c.id) = 1
          /\ c.scriptInstance.destroyed

\* C5: onDestroy() is never invoked on a script instance it was already
\* invoked on.
C5_OnDestroyOncePerInstance ==
    [][\A k \in 1..Len(calls') :
         calls'[k].fn = "onDestroy"
           => ~ById(entityComponents, calls'[k].id).scriptInstance.destroyed]_vars

\* C10: in a scheduler tick every stored component is updated exactly once
\* with the tick's deltaTime in play mode; in pause and edit mode every
\* component but the Script ones is updated exactly once and no Script
\* component is updated.
C10_EachUpdatedOncePerTick ==
    [][Tick =>
         \A c \in AllComponents(entityComponents) :
            Cardinality({k \in 1..Len(calls') :
                           calls'[k] = Call("comp.update", c.id, now - lastTime)})
              = IF editorMode = "play" \/ c.name # "Script" THEN 1 ELSE 0]_vars

\* C11: a scheduler tick invokes the update hook of a script only in play
\* mode (none once playback is stopped, until the next play), and calls
\* update only on components that are stored when the tick runs (none that
\* was removed).
C11_NoUpdateAfterStopOrRemove ==
    [][Tick =>
         \A k \in 1..Len(calls') :
            /\ calls'[k].fn = "update" => editorMode = "play"
            /\ calls'[k].fn \in {"comp.update", "update"}
                  => \E c \in AllComponents(entityComponents) :
                        c.id = calls'[k].id]_vars

\* a tick after a stop: the collider was updated, the enabled script that ran
\* in the stopped session was not
C11_Witness ==
    /\ editorMode = "edit"
    /\ \E c \in ScriptsWith(entityComponents, "update") :
          /\ c.enabled /\ c.scriptInstance.destroyed
          /\ \E d \in AllComponents(entityComponents) :
                /\ d.name = "Collider"
                /\ calls = <<Call("comp.update", d.id, 0)>>

\* C12: when a component's update throws during a tick, no exception leaves
\* the tick and every component due an update in that tick receives it.
C12_UpdateErrorCaught ==
    [][Tick =>
         /\ ~ret'.threw
         /\ \A c \in AllComponents(entityComponents) :
               (editorMode = "play" \/ c.name # "Script")
                 => \E k \in 1..Len(calls') :
                       calls'[k] = Call("comp.update", c.id, now - lastTime)]_vars

\* Play, pause and stop over scripts that are enabled or not and whose
\* hooks throw or not, while real time passes.
LifeData ==
    {[scriptCode |-> "full"], [scriptCode |-> "full", enabled |-> FALSE],
     [scriptCode |-> "badhooks"]}

NextLife ==
    \/ \E e \in Entities, data \in LifeData : AddComponent(e, "Script", data)
    \/ \E e \in Entities : RemoveComponent(e, "Script")
    \/ \E d \in 1..MaxTime : AdvanceTime(d)
    \/ PlayScene
    \/ PauseScene
    \/ StopScene

SpecLife == Init /\ [][NextLife]_vars

\* C13: the play transition sets the start timestamp to now and the
\* accumulated pause to 0 and calls start() once on every stored Script that
\* is enabled and compiled with a start hook, and on no other Script (none
\* whose enabled flag is false).
C13_StartSkipsDisabled ==
    [][PlayFromStopped =>
         /\ scriptStartTime' = now
         /\ totalPausedTime' = 0
         /\ \A c \in AllComponents(entityComponents) :
               c.name = "Script"
                 => CountCalls(calls', "start", c.id)
                      = IF c.enabled /\ ~c.scriptInstance.isNull
                           /\ c.scriptInstance.start
                        THEN 1 ELSE 0]_vars

\* C14: when a script's start() throws in the play transition, the
\* transition raises nothing, the mode becomes play, and start() is called
\* once on every enabled Script that has it.
C14_StartErrorCaught ==
    [][PlayFromStopped =>
         /\ ~ret'.threw
         /\ editorMode' = "play"
         /\ \A c \in ScriptsWith(entityComponents, "start") :
               c.enabled => CountCalls(calls', "start", c.id) = 1]_vars

\* play was just pressed: the first script's start() threw and was logged,
\* and the second script was started after it
C14_Witness ==
    /\ editorMode = "play"
    /\ Len(calls) = 3
    /\ calls[1].fn = "start" /\ calls[2] = Call("console.error", calls[1].id, 0)
    /\ calls[3].fn = "start" /\ calls[3].id # calls[1].id
    /\ ~ret.threw

\* C15: the stop transition raises nothing, calls onDestroy() once on every
\* Script instance that has it (those whose onDestroy throws included) and
\* sets the three clock fields to zero; in stopped mode the elapsed-time query
\* returns 0.
C15_StopDestroysAllAndResets ==
    [][/\ StopScene =>
            /\ ~ret'.threw
            /\ \A c \in ScriptsWith(entityComponents, "onDestroy") :
                  CountCalls(calls', "onDestroy", c.id) = 1
            /\ scriptStartTime' = 0
            /\ scriptPauseTime' = 0
            /\ totalPausedTime' = 0
       /\ editorMode' = "edit" => getTime' = 0]_vars

\* playback that lasted was just stopped: the first script's onDestroy()
\* threw and was logged, the second script's onDestroy() ran after it
C15_Witness ==
    /\ editorMode = "edit"
    /\ playingTime >= 1
    /\ now > 2
    /\ Len(calls) = 3
    /\ calls[1].fn = "onDestroy"
    /\ calls[2] = Call("console.error", calls[1].id, 0)
    /\ calls[3].fn = "onDestroy" /\ calls[3].id # calls[1].id

\* A counting script on e1 next to plugin components whose update throws.
NextCount ==
    \/ RegisterComponent
    \/ AddComponent("e1", "Script", [scriptCode |-> "counter"])
    \/ \E e \in Entities : AddComponent(e, "Custom", [kind |-> "throwUpdate"])
    \/ RemoveComponent("e1", "Script")
    \/ \E e \in Entities : RemoveComponent(e, "Custom")
    \/ Tick
    \/ PlayScene
    \/ PauseScene
    \/ StopScene

SpecCount == Init /\ [][NextCount]_vars

\* C16: for an enabled Script whose update hook increments variables.count,
\* every scheduler tick in play mode raises the stored component's
\* variables.count by exactly one, and ticks in other modes and the mode
\* transitions leave it as it is: after play and N ticks the count stands N
\* above its value at play.
C16_CountEqualsTicks ==
    [][\A c \in AllComponents(entityComponents) :
         (c.name = "Script" /\ c.enabled /\ Counts(c.scriptInstance))
           => IF Tick /\ editorMode = "play"
              THEN ById(entityComponents', c.id).count = c.count + 1
              ELSE (Tick \/ PlayScene \/ PauseScene \/ StopScene)
                      => ById(entityComponents', c.id).count = c.count]_vars

\* The script text of the Script of e1 is edited, in and out of a play
\* session, while the object of e1 is replaced and deleted.
RecompileTexts == {"", "full", "upd", "syntax", "throws"}

NextRecompile ==
    \/ \E data \in ScriptData : AddComponent("e1", "Script", data)
    \/ \E text \in RecompileTexts : UpdateScriptProperty("e1", text)
    \/ ReplaceObject("e1")
    \/ RemoveObject("e1")
    \/ PlayScene
    \/ PauseScene
    \/ StopScene

SpecRecompile == Init /\ [][NextRecompile]_vars

\* C23: after the text of a stored Script is changed and recompiled, the
\* component holds a fresh instance compiled from the new text (not started,
\* not destroyed, its context as created, gameObject being the entity's
\* current scene object), or null when the new text fails to compile.
C23_RecompileDiscardsPrevious ==
    [][\A e \in Entities, text \in RecompileTexts :
         (hasComponent(entityComponents, e, "Script")
            /\ UpdateScriptProperty(e, text))
           => LET inst == getComponent(entityComponents', e, "Script")
                             .scriptInstance
              IN IF ParseFails(text) \/ EvalThrows(text)
                 THEN inst.isNull
                 ELSE /\ ~inst.isNull
                      /\ inst.src = text
                      /\ ~inst.started /\ ~inst.destroyed
                      /\ inst.context = createScriptContext(e)]_vars

\* One script under the scheduler while real time passes and the object of
\* its entity is replaced and deleted.
NextContext ==
    \/ AddComponent("e1", "Script", [scriptCode |-> "full"])
    \/ ReplaceObject("e1")
    \/ RemoveObject("e1")
    \/ Tick
    \/ \E d \in 1..2 : AdvanceTime(d)
    \/ PlayScene
    \/ PauseScene
    \/ StopScene

SpecContext == Init /\ [][NextContext]_vars

\* C25: every update hook invoked in a tick finds, in its context,
\* time.deltaTime equal to the deltaTime of the tick, time.time equal to the
\* real time spent playing since play, and gameObject equal to the object
\* the scene holds for the script's entity.
C25_ContextRefreshedBeforeUpdate ==
    [][Tick =>
         \A i \in 1..Len(calls') :
            calls'[i].fn = "update"
              => /\ calls'[i].context.deltaTime = ret'.result
                 /\ calls'[i].context.time = playingTime
                 /\ ById(entityComponents, calls'[i].id).entity \in objects
                 /\ calls'[i].context.gameObject =
                       objectGen[ById(entityComponents, calls'[i].id).entity]]_vars

\* a tick after time passed in play mode invoked the update hook of a script
\* whose entity's object was replaced since the script was compiled
C25_Witness ==
    /\ editorMode = "play"
    /\ ret.result >= 1
    /\ playingTime >= 2
    /\ \E i \in 1..Len(calls) :
          /\ calls[i].fn = "update"
          /\ calls[i].context.gameObject = 2
          /\ calls[i].context.deltaTime = ret.result

\* The update loop started and stopped through its API while frames pass.
NextLoop ==
    \/ \E e \in Entities, name \in {"Script", "Collider"} :
          AddComponent(e, name, IF name = "Script"
                                THEN [scriptCode |-> "full"] ELSE EmptyData)
    \/ \E e \in Entities, name \in {"Script", "Collider"} :
          RemoveComponent(e, name)
    \/ StartUpdateLoop
    \/ StopUpdateLoop
    \/ Tick
    \/ ChainEnds
    \/ PlayScene
    \/ PauseScene
    \/ StopScene

SpecLoop == Init /\ [][NextLoop]_vars

\* C26: whatever startUpdateLoop and stopUpdateLoop calls and frame
\* callbacks happened, at most one self-rescheduling update chain is
\* pending, and once a frame callback ran after stopUpdateLoop none is.
C26_AtMostOneChain ==
    [][/\ chains' <= 1
       /\ ChainEnds => chains' = 0]_vars

\* The event bus under its API.
NextBus ==
    \/ \E mode \in {"on", "once"}, t \in EventTypes, kind \in ListenerKinds :
          Subscribe(mode, t, kind)
    \/ \E id \in 1..MaxListeners : Unsubscribe(id)
    \/ \E t \in EventTypes : EmitEvent(t)

SpecBus == Init /\ [][NextBus]_vars

\* how often callback id was invoked by the emit at nesting depth d
CountAt(log, id, d) ==
    Cardinality({i \in 1..Len(log) :
                   log[i] = Call("listener", id, d)})

\* the callbacks of an array of listeners
Ids(listeners) == {listeners[i].id : i \in 1..Len(listeners)}

C28_OnceAtMostOnce ==
    [][/\ \A id \in 1..Len(bus'.made) :
             bus'.made[id].mode = "once" => bus'.count[id] <= 1
       /\ \A t \in EventTypes :
             EmitEvent(t)
               => \A id \in Ids(bus.events[t]) : CountAt(calls', id, 0) = 1]_vars

\* an emit during which a persistent listener emitted the event again has
\* invoked a one-shot listener, in the nested emit
C28_Witness ==
    \E i, j \in 1..Len(calls) :
       /\ i < j
       /\ calls[i].fn = "listener" /\ calls[i].dt = 0
       /\ bus.made[calls[i].id].kind = "reemit"
       /\ calls[j].fn = "listener" /\ calls[j].dt = 1
       /\ bus.made[calls[j].id].mode = "once"

\* The components of e1 are built and edited, then saved and restored
\* onto e2.
SaveData(name) ==
    CASE name = "Script" -> {[scriptCode |-> "full"],
                             [scriptName |-> "Metadata", enabled |-> FALSE]}
      [] name = "Collider" -> ColliderData
      [] OTHER -> {EmptyData, [lightType |-> "spot", castShadow |-> FALSE]}

NextSave ==
    \/ \E name \in BuiltinTypes : \E data \in SaveData(name) :
          AddComponent("e1", name, data)
    \/ \E name \in BuiltinTypes : RemoveComponent("e1", name)
    \/ \E value \in {0, 2} : SetIntensity("e1", value)
    \/ \E value \in BOOLEAN : SetIsTrigger("e1", value)
    \/ CopyEntity("e1", "e2")
    \/ RemoveAllComponents("e2")

SpecSave == Init /\ [][NextSave]_vars

\* C30: deserializeEntity(F, serializeEntity(E)) on an entity F without
\* components gives F the component types of E, and serializing F then
\* yields what serializing E yielded, field by field.
C30_RoundTrip ==
    [][\A e, f \in Entities :
         (~HasMap(entityComponents, f) /\ CopyEntity(e, f))
           => /\ {c.name : c \in Range(getComponents(entityComponents', f))}
                   = {c.name : c \in Range(getComponents(entityComponents, e))}
              /\ serializeEntity(entityComponents', f)
                   = serializeEntity(entityComponents, e)]_vars

\* The playback clock under direct calls of its five operations, while real
\* time passes.
NextClockApi ==
    \/ AddComponent("e1", "Script", [scriptCode |-> "full"])
    \/ CallStart
    \/ CallPause
    \/ CallResume
    \/ CallStop
    \/ CallReset
    \/ \E d \in 1..2 : AdvanceTime(d)

SpecClockApi == Init /\ [][NextClockApi]_vars

\* C31: while scriptStartTime is set, totalPausedTime does not exceed
\* now - scriptStartTime, so that the elapsed script time is not negative.
C31_ElapsedNeverNegative ==
    scriptStartTime # 0 => totalPausedTime <= now - scriptStartTime

\* the first component of the sequence whose destroy() throws (0: none)
FirstThrowing(cs) ==
    IF \E k \in 1..Len(cs) : DestroyThrows(cs[k])
    THEN CHOOSE k \in 1..Len(cs) :
           /\ DestroyThrows(cs[k])
           /\ \A m \in 1..(k - 1) : ~DestroyThrows(cs[m])
    ELSE 0

\* C35: when the destroy() of the component throws, removeComponent throws,
\* leaves the store and the updateable set as they were and emits no
\* component:removed; a removeAllComponents that meets such a component
\* throws and leaves it and the entity's components after it stored and
\* updateable, having removed those before it.
C35_DestroyErrorAbortsRemoval ==
    [][\A e \in Entities :
         /\ \A name \in TypeNames :
              (/\ RemoveComponent(e, name)
               /\ hasComponent(entityComponents, e, name)
               /\ DestroyThrows(getComponent(entityComponents, e, name)))
                => /\ ret'.threw
                   /\ entityComponents' = entityComponents
                   /\ updateableComponents' = updateableComponents
                   /\ Emitted(calls', "emit:component:removed") = {}
         /\ (RemoveAllComponents(e)
               /\ FirstThrowing(ComponentsOf(entityComponents, e)) # 0)
              => LET cs == ComponentsOf(entityComponents, e)
                     k == FirstThrowing(cs)
                 IN /\ ret'.threw
                    /\ ComponentsOf(entityComponents', e) = SubSeq(cs, k, Len(cs))
                    /\ updateableComponents' = updateableComponents
                          \ {Ref(cs[m]) : m \in 1..(k - 1)}
                    /\ Cardinality(Emitted(calls', "emit:component:removed"))
                          = k - 1]_vars

\* a call threw at a destroy() and the entity still has that component and
\* one after it, both updateable
C35_Witness ==
    /\ ret.threw
    /\ \E i \in 1..Len(entityComponents) :
          LET cs == entityComponents[i].components
          IN /\ Len(cs) = 2
             /\ DestroyThrows(cs[1])
             /\ calls[Len(calls)] = Call("throw", cs[1].id, 0)
             /\ Ref(cs[2]) \in updateableComponents

\* C34: every entity id that is a key of the store maps to a component map
\* with at least one component, whatever addComponent, removeComponent and
\* removeAllComponents calls were made, those whose constructor throws
\* included.
C34_NoEmptyComponentMap ==
    \A i \in 1..Len(entityComponents) :
       Len(entityComponents[i].components) > 0

\* Scripts built with enabled = false whose flag is switched from the
\* inspector, through play sessions and ticks.
NextEnabled ==
    \/ \E e \in Entities :
          AddComponent(e, "Script", [scriptCode |-> "full", enabled |-> FALSE])
    \/ \E e \in Entities, value \in BOOLEAN : SetEnabled(e, value)
    \/ PlayScene
    \/ PauseScene
    \/ StopScene
    \/ AdvanceTime(2)
    \/ Tick

SpecEnabled == Init /\ [][NextEnabled]_vars

\* C33: a tick never invokes the update hook of a Script whose enabled flag
\* is false, in any mode; in play mode it invokes the hook of every enabled
\* Script once, whatever the flag was before; and switching the flag leaves
\* the compiled instance as it is.
C33_DisabledScriptNotUpdated ==
    [][/\ Tick =>
            \A c \in ScriptsWith(entityComponents, "update") :
               CountCalls(calls', "update", c.id)
                 = IF c.enabled /\ editorMode = "play" THEN 1 ELSE 0
       /\ \A e \in Entities, value \in BOOLEAN :
            (SetEnabled(e, value) /\ hasComponent(entityComponents, e, "Script"))
              => /\ getComponent(entityComponents', e, "Script").scriptInstance
                      = getComponent(entityComponents, e, "Script").scriptInstance
                 /\ CountCalls(calls', "compileScript",
                        getComponent(entityComponents, e, "Script").id) = 0]_vars

\* a tick in play mode invoked the update hook of a script that was built
\* disabled, while the other script, still disabled, was passed over
C33_Witness ==
    /\ editorMode = "play"
    /\ \E c, d \in AllComponents(entityComponents) :
          /\ c.name = "Script" /\ d.name = "Script"
          /\ c.enabled /\ ~d.enabled
          /\ CountCalls(calls, "update", c.id) = 1
          /\ CountCalls(calls, "update", d.id) = 0
          /\ \E k \in 1..Len(calls) : calls[k].fn = "comp.update"
                                       /\ calls[k].id = d.id

\* A script that subscribes to an event in its start() hook, through play
\* sessions, edits of its text and removal, while the event is emitted.
NextScriptBus ==
    \/ \E e \in Entities :
          AddComponent(e, "Script", [scriptCode |-> "subscriber"])
    \/ \E e \in Entities : RemoveComponent(e, "Script")
    \/ \E e \in Entities, text \in {"full", "subscriber"} :
          UpdateScriptProperty(e, text)
    \/ PlayScene
    \/ PauseScene
    \/ StopScene
    \/ EmitEvent("a")

SpecScriptBus == Init /\ [][NextScriptBus]_vars

\* C32: a subscription made by a script through on() of its context stays
\* among the persistent listeners of its event whatever the runtime does
\* (removal or recompilation of the Script, stop of playback), and every
\* emit of the event invokes its callback.
C32_ScriptSubscriptionStays ==
    [][/\ \A id \in 1..Len(bus'.made) :
            bus'.made[id].kind = "script"
              => id \in Ids(bus'.events[bus'.made[id].type])
       /\ \A t \in EventTypes :
            EmitEvent(t)
              => \A id \in 1..Len(bus.made) :
                    (bus.made[id].kind = "script" /\ bus.made[id].type = t)
                      => CountAt(calls', id, 0) = 1]_vars

\* an emit invoked the callback of a script after playback was stopped and
\* every Script component was removed
C32_Witness ==
    /\ editorMode = "edit"
    /\ AllComponents(entityComponents) = {}
    /\ \E i \in 1..Len(calls) :
          /\ calls[i].fn = "listener"
          /\ bus.made[calls[i].id].kind = "script"

\* Objects created and deleted from the UI, with undo, redo and new project.
NextHistory ==
    \/ AddObject
    \/ \E e \in ObjectNames : RemoveObject(e)
    \/ \E e \in ObjectNames : DeleteSelected(e)
    \/ Undo
    \/ Redo
    \/ \E confirmed \in BOOLEAN : NewProject(confirmed)
    \/ AddComponent("e1", "Collider", EmptyData)

SpecHistory == Init /\ [][NextHistory]_vars

\* C39: an undo() with commandIndex >= 0 leaves commandIndex one less than
\* it was and commandHistory as it was, so that the command a following
\* redo() executes is the one just undone.
C39_UndoRevertsOneCommand ==
    [][(Undo /\ commandIndex >= 0) =>
         /\ commandIndex' = commandIndex - 1
         /\ commandHistory' = commandHistory
         /\ commandHistory'[commandIndex' + 2]
               = commandHistory[commandIndex + 1]]_vars

\* C40: commandIndex is at least -1 and at most the last position of
\* commandHistory (positions counted from 0), and commandHistory is no
\* longer than maxHistorySize.
C40_HistoryWithinBounds ==
    /\ -1 <= commandIndex
    /\ commandIndex <= Len(commandHistory) - 1
    /\ Len(commandHistory) <= maxHistorySize

\* the undo of a creation added, re-entrantly, the command of the deletion
\* it made, which filled the history
C40_Witness ==
    /\ Len(commandHistory) = maxHistorySize
    /\ commandIndex = maxHistorySize - 2
    /\ commandHistory[maxHistorySize - 1].kind = "Create"
    /\ commandHistory[maxHistorySize]
          = DeleteObjectCommand(commandHistory[maxHistorySize - 1].object)
    /\ commandHistory[maxHistorySize].object \notin objects

\* The component system filled, updated and disposed of.
NextDispose ==
    \/ RegisterComponent
    \/ \E e \in Entities :
          \/ AddComponent(e, "Script", [scriptCode |-> "full"])
          \/ AddComponent(e, "Collider", EmptyData)
          \/ \E kind \in {"ok", "throwDestroy"} :
                AddComponent(e, "Custom", [kind |-> kind])
    \/ Tick
    \/ ChainEnds
    \/ Dispose

SpecDispose == Init /\ [][NextDispose]_vars

\* C38: dispose() calls destroy() once on every component stored, leaves the
\* store, the type registry, the updateable set and the template registry
\* empty and the update loop stopped, and once the loop is stopped no step
\* updates a component.
C38_DisposeLeavesNothing ==
    [][/\ Dispose =>
            /\ \A c \in AllComponents(entityComponents) :
                  CountCalls(calls', "comp.destroy", c.id) = 1
            /\ entityComponents' = <<>>
            /\ DOMAIN componentTypes' = {}
            /\ updateableComponents' = {}
            /\ scriptTemplates' = {}
            /\ ~isUpdating'
       /\ ~isUpdating =>
            \A k \in 1..Len(calls') : calls'[k].fn # "comp.update"]_vars

\* A script whose entity has no scene object: it was added to an id without
\* object, or it stayed when the removal of the object's components stopped
\* at a plugin component whose destroy() throws.
NextOrphan ==
    \/ RegisterComponent
    \/ AddComponent("e1", "Custom", [kind |-> "throwDestroy"])
    \/ AddComponent("e1", "Script", [scriptCode |-> "full"])
    \/ RemoveObject("e1")
    \/ Tick
    \/ AdvanceTime(1)
    \/ PlayScene
    \/ PauseScene
    \/ StopScene

SpecOrphan == Init /\ [][NextOrphan]_vars

\* C37: a tick in play mode does not invoke the update hook of an enabled,
\* compiled Script whose entity has no scene object, and leaves the
\* gameObject of its context as it was, while the deltaTime and time of the
\* context are those of the tick.
C37_NoObjectNoUpdate ==
    [][(Tick /\ editorMode = "play") =>
         \A c \in AllComponents(entityComponents) :
            (/\ c.name = "Script" /\ c.enabled /\ ~c.scriptInstance.isNull
             /\ c.entity \notin objects)
              => LET after == ById(entityComponents', c.id).scriptInstance.context
                 IN /\ CountCalls(calls', "update", c.id) = 0
                    /\ CountCalls(calls', "comp.update", c.id) = 1
                    /\ after.gameObject = c.scriptInstance.context.gameObject
                    /\ after.deltaTime = ret'.result
                    /\ after.time = playingTime]_vars

\* a tick in play mode passed over the hook of a script whose entity lost
\* its object: the context still holds the object and has the tick's times
C37_Witness ==
    /\ editorMode = "play"
    /\ ret.result = 2
    /\ \E c \in AllComponents(entityComponents) :
          /\ c.name = "Script" /\ c.entity \notin objects
          /\ c.scriptInstance.context.gameObject = 1
          /\ c.scriptInstance.context.deltaTime = 2
          /\ c.scriptInstance.context.time >= 2
          /\ CountCalls(calls, "comp.update", c.id) = 1
          /\ CountCalls(calls, "update", c.id) = 0

\* The event bus with callbacks that subscribe and unsubscribe listeners of
\* the event they are invoked for.
NextSnapshot ==
    \/ \E mode \in {"on", "once"}, kind \in ResubscribingKinds \cup {"plain"} :
          Subscribe(mode, "a", kind)
    \/ EmitEvent("a")

SpecSnapshot == Init /\ [][NextSnapshot]_vars

\* the callbacks invoked in the log, in order, of the listeners subscribed
\* in the given mode
RECURSIVE Invoked(_, _, _)
Invoked(log, made, mode) ==
    IF Len(log) = 0 THEN <<>>
    ELSE IF Head(log).fn = "listener" /\ made[Head(log).id].mode = mode
    THEN <<Head(log).id>> \o Invoked(Tail(log), made, mode)
    ELSE Invoked(Tail(log), made, mode)

\* C36: an emit invokes the persistent listeners subscribed when it starts,
\* each once and in subscription order, whatever the callbacks subscribe or
\* unsubscribe meanwhile; then the one-shot listeners subscribed when the
\* persistent ones are done, each once and in subscription order, whatever
\* the one-shot callbacks subscribe or unsubscribe; no one-shot listener
\* runs before a persistent one.
C36_DispatchToSnapshot ==
    [][\A t \in EventTypes :
         EmitEvent(t) =>
           LET persistent == bus.events[t]
               afterPersistent ==
                   invokeAll(Dispatch(bus), persistent, 1, t, 0).bus
               oneShot == afterPersistent.onceEvents[t]
           IN /\ Invoked(calls', bus'.made, "on")
                    = [k \in 1..Len(persistent) |-> persistent[k].id]
              /\ Invoked(calls', bus'.made, "once")
                    = [k \in 1..Len(oneShot) |-> oneShot[k].id]
              /\ \A i, j \in 1..Len(calls') :
                    (/\ i < j
                     /\ calls'[i].fn = "listener" /\ calls'[j].fn = "listener"
                     /\ bus'.made[calls'[j].id].mode = "on")
                      => bus'.made[calls'[i].id].mode = "on"
              /\ \A id \in (Len(bus.made) + 1)..Len(bus'.made) :
                    bus'.made[id].mode = "on" => CountAt(calls', id, 0) = 0]_vars

\* an emit invoked a callback that unsubscribed the next listener, then that
\* listener, which subscribed a third one, and not the third one
C36_Witness ==
    /\ Len(calls) = 3
    /\ calls[1] = Call("listener", 1, 0)
    /\ calls[2] = Call("listener", 2, 0)
    /\ Len(bus.made) = 3
    /\ bus.made[1].kind = "unsubscribes"
    /\ bus.made[2].kind = "subscribes"
    /\ Ids(bus.events["a"]) = {1, 3}
    /\ bus.count[3] = 0

\* Plugins register their classes under the same name while components of
\* that name are added and removed.
NextRegistry ==
    \/ \E cls \in PluginClasses : RegisterAs(cls)
    \/ \E e \in Entities, name \in {"Custom", "Collider"} :
          \E data \in DataFor(name) : AddComponent(e, name, data)
    \/ \E e \in Entities, name \in {"Custom", "Collider"} :
          RemoveComponent(e, name)

SpecRegistry == Init /\ [][NextRegistry]_vars

\* C29: registering a name again succeeds and replaces the class of the
\* name, with the stored components left as they are; nothing else changes
\* the registry; and addComponent constructs with the class the name is
\* registered with at that moment.
C29_LastWriteWins ==
    [][/\ \A cls \in PluginClasses :
            RegisterAs(cls)
              => /\ ~ret'.threw
                 /\ componentTypes'["Custom"] = cls
                 /\ \A n \in DOMAIN componentTypes \ {"Custom"} :
                       componentTypes'[n] = componentTypes[n]
                 /\ entityComponents' = entityComponents
                 /\ updateableComponents' = updateableComponents
       /\ (~\E cls \in PluginClasses : RegisterAs(cls))
            => componentTypes' = componentTypes
       /\ \A e \in Entities, data \in CustomData :
            (/\ "Custom" \in DOMAIN componentTypes
             /\ ~hasComponent(entityComponents, e, "Custom")
             /\ AddComponent(e, "Custom", data)
             /\ ~ret'.threw)
              => getComponent(entityComponents', e, "Custom").class
                   = componentTypes["Custom"]]_vars

\* the name was registered again with another class between two
\* addComponent calls: the older component has the first class, the newer
\* one the second
C29_Witness ==
    /\ hasComponent(entityComponents, "e1", "Custom")
    /\ hasComponent(entityComponents, "e2", "Custom")
    /\ getComponent(entityComponents, "e1", "Custom").class = "PluginA"
    /\ getComponent(entityComponents, "e2", "Custom").class = "PluginB"
    /\ componentTypes["Custom"] = "PluginB"
    /\ ret.result = getComponent(entityComponents, "e2", "Custom").id

\* Scripts with and without a compiled instance next to colliders, under
\* the scheduler in every mode.
InertData(name) ==
    IF name = "Script"
    THEN {EmptyData, [scriptCode |-> "syntax"], [scriptCode |-> "full"]}
    ELSE {EmptyData}

NextInert ==
    \/ \E e \in Entities, name \in {"Script", "Collider"} :
          \E data \in InertData(name) : AddComponent(e, name, data)
    \/ \E e \in Entities, name \in {"Script", "Collider"} :
          RemoveComponent(e, name)
    \/ Tick
    \/ PlayScene
    \/ PauseScene
    \/ StopScene

SpecInert == Init /\ [][NextInert]_vars

\* C24: in any mode, a tick that reaches a Script component whose
\* scriptInstance is null calls no user hook of it, raises nothing, and
\* delivers update to every component due one in that tick.
C24_NullInstanceIsInert ==
    [][(Tick /\ \E c \in AllComponents(entityComponents) :
                   c.name = "Script" /\ c.scriptInstance.isNull)
         => /\ ~ret'.threw
            /\ \A c \in AllComponents(entityComponents) :
                  /\ (c.name = "Script" /\ c.scriptInstance.isNull)
                        => \A h \in Hooks : CountCalls(calls', h, c.id) = 0
                  /\ (editorMode = "play" \/ c.name # "Script")
                        => CountCalls(calls', "comp.update", c.id) = 1]_vars

\* a tick in play mode went through a Script without instance and then
\* updated the collider stored after it
C24_Witness ==
    /\ editorMode = "play"
    /\ Len(calls) = 2
    /\ calls[1].fn = "comp.update" /\ calls[2].fn = "comp.update"
    /\ ById(entityComponents, calls[1].id).name = "Script"
    /\ ById(entityComponents, calls[1].id).scriptInstance.isNull
    /\ ById(entityComponents, calls[2].id).name = "Collider"

\* The playback clock: real time passes between the operations, over one
\* entity with one script.
NextClock ==
    \/ AddComponent("e1", "Script", [scriptCode |-> "full"])
    \/ RemoveComponent("e1", "Script")
    \/ Tick
    \/ \E d \in 1..MaxTime : AdvanceTime(d)
    \/ ReadTime
    \/ PlayScene
    \/ PauseScene
    \/ StopScene

SpecClock == Init /\ [][NextClock]_vars

\* ------------------------------------------------------ claims on the clock
\* C6: a getTime() reading taken in play mode is not below the previous
\* reading taken in play mode, and a reading taken in pause mode equals the
\* previous reading taken in the same pause.
C6_ElapsedMonotoneAndFrozen ==
    [][ReadTime =>
         /\ (editorMode = "play" /\ lastPlayRead # -1)
               => ret'.result >= lastPlayRead
         /\ (editorMode = "pause" /\ lastPauseRead # -1)
               => ret'.result = lastPauseRead]_vars

\* C7: in play mode the elapsed script time equals the real time spent in
\* play mode since play, whatever the pauses lasted.
C7_PauseExcluded == editorMode = "play" => getTime = playingTime

\* playing again after a pause that lasted, with a reading of the elapsed
\* time taken
C7_Witness ==
    /\ editorMode = "play"
    /\ totalPausedTime >= 1
    /\ playingTime >= 2
    /\ lastPlayRead = playingTime

====
